---- MODULE Spec2Model ----
(***************************************************************************)
(* dbtpl: the pgx code generator (templates/pgx/pgx.go), the record code   *)
(* emitted from its two schema templates, and the row-literal codec        *)
(* (row_marshaler).                                                        *)
(*                                                                         *)
(* Spec       a generated record used against one database table           *)
(* SpecCodec  the row-literal codec applied to bounded inputs              *)
(***************************************************************************)
EXTENDS Integers, Sequences, FiniteSets, TLC

VARIABLES tpl, table, rec, db, seqval, errorf, live, delOK, crec, cout

vars == <<tpl, table, rec, db, seqval, errorf, live, delOK, crec, cout>>

crudVars == <<tpl, table, rec, db, seqval, errorf, live, delOK>>

codecVars == <<crec, cout>>

(***************************************************************************)
(* Bounds                                                                  *)
(***************************************************************************)
\* largest value a caller stores in a record field
MaxVal == 1

\* number of values the table's sequence hands out
MaxSeq == 1

\* largest number of rows the table is filled with
MaxRows == 2

\* largest number of characters, over all its strings, of a list of strings
\* given to EscapeString and BuildRowLiteral
MaxStrLen == 2

\* largest number of strings in such a list
MaxStrings == 2

\* largest number of tagged fields of a record given to Marshal
MaxFields == 2

(***************************************************************************)
(* Small helpers                                                           *)
(***************************************************************************)
Range(s) == {s[i] : i \in 1..Len(s)}

\* Go nil and SQL NULL
Nil == -1

(***************************************************************************)
(* pgx.go: template types and conversion of the loader's table             *)
(***************************************************************************)
\* Field (pgx.go) with the column's default marker the template asks for
Field(sql, go, pk, sq, dflt) ==
  [SQLName |-> sql, GoName |-> go, IsPrimary |-> pk, IsSequence |-> sq, HasDefault |-> dflt]

\* has_default: whether the column declares a default
has_default(f) == f.HasDefault

\* convertTable: the primary keys are the primary fields in declared order
convertTable(name, columns, manual) ==
  [SQLName |-> name,
   Fields |-> columns,
   PrimaryKeys |-> SelectSeq(columns, LAMBDA f : f.IsPrimary),
   Manual |-> manual]

\* the schemas the generator is run on
Tables ==
  { convertTable("authors",
       << Field("author_id", "AuthorID", TRUE, TRUE, FALSE),
          Field("name", "Name", FALSE, FALSE, FALSE),
          Field("bio", "Bio", FALSE, FALSE, TRUE) >>, FALSE),
    convertTable("book_tags",
       << Field("book_id", "BookID", TRUE, FALSE, FALSE),
          Field("tag_id", "TagID", TRUE, FALSE, FALSE) >>, TRUE),
    convertTable("book_tags",
       << Field("book_id", "BookID", TRUE, FALSE, FALSE),
          Field("tag_id", "TagID", TRUE, FALSE, FALSE) >>, FALSE),
    convertTable("codes",
       << Field("title", "Title", FALSE, FALSE, FALSE),
          Field("code", "Code", TRUE, FALSE, FALSE) >>, TRUE),
    convertTable("shards",
       << Field("id", "ID", TRUE, TRUE, FALSE),
          Field("region", "Region", TRUE, FALSE, FALSE),
          Field("val", "Val", FALSE, FALSE, FALSE) >>, FALSE) }

\* hasSequence
hasSequence(t) == \E i \in 1..Len(t.Fields) : t.Fields[i].IsSequence

\* seqField: the first sequence field
seqField(t) ==
  t.Fields[CHOOSE i \in 1..Len(t.Fields) :
             /\ t.Fields[i].IsSequence
             /\ \A j \in 1..(i-1) : ~t.Fields[j].IsSequence]

\* Esc: whether the esc list of the context holds the mode, or "all"
Esc(esc, mode) == mode \in esc \/ "all" \in esc

\* NewFuncs: the template functions' receiver, from the context
NewFuncs(ctx) ==
  [driver |-> ctx.driver, schema |-> ctx.schema,
   escSchema |-> Esc(ctx.esc, "schema"),
   escTable |-> Esc(ctx.esc, "table"),
   escColumn |-> Esc(ctx.esc, "column")]

\* the context of the generated code the record operations run: postgres,
\* no schema name, nothing escaped
PlainContext == [driver |-> "postgres", schema |-> "", esc |-> {}]

PlainFuncs == NewFuncs(PlainContext)

\* the receiver f of the template functions: built from the generator's
\* context where the state holds one
funcs ==
  IF DOMAIN crec = {} THEN PlainFuncs
  ELSE IF crec.kind = "generator" THEN NewFuncs(crec.ctx)
  ELSE PlainFuncs

\* colname
colname(f) == IF funcs.escColumn THEN "\"" \o f.SQLName \o "\"" ELSE f.SQLName

\* schemafn, for one name
schemafn(n) ==
  IF funcs.schema = "" /\ n = "" THEN ""
  ELSE IF funcs.driver = "sqlite3" THEN n
  ELSE IF funcs.schema # "" /\ n # "" /\ funcs.escSchema
  THEN "\"" \o funcs.schema \o "\".\"" \o n \o "\""
  ELSE IF funcs.schema # "" /\ n # "" THEN funcs.schema \o "." \o n
  ELSE IF funcs.escSchema THEN "\"" \o n \o "\""
  ELSE n

\* loader.NthParam for postgres: the n-th (0-based) parameter is $n+1
nth(n) == n + 1

\* short: the receiver identifier of a type
short(t) == "r"

\* names: prefix + Go name of each field of a list, in order
names(prefix, fields) ==
  [i \in 1..Len(fields) |-> [prefix |-> prefix, name |-> fields[i].GoName]]

\* names_ignore: like names, without the fields whose Go name is ignored
names_ignore(prefix, t, ignore) ==
  names(prefix, SelectSeq(t.Fields, LAMBDA f : f.GoName \notin ignore))

(***************************************************************************)
(* pgx.go: the SQL builder.  A statement is kept as its clauses: the       *)
(* column list, the placeholder list ($n is kept as n), the conflict       *)
(* tuple, the keywords after DO, the SET list, the WHERE list and the      *)
(* RETURNING list.                                                         *)
(***************************************************************************)
Stmt(kind, tab, cols, vals, conflict, do, sets, where, returning) ==
  [kind |-> kind, table |-> tab, cols |-> cols, vals |-> vals, conflict |-> conflict,
   do |-> do, sets |-> sets, where |-> where, returning |-> returning]

\* a SET element "col = $ph" or "col = EXCLUDED.src"
SetItem(col, ph, src) == [col |-> col, ph |-> ph, excluded |-> src]

\* a WHERE element "col = $ph"
Cond(col, ph) == [col |-> col, ph |-> ph]

\* sqlstr_insert_base that never skips the sequence column
sqlstr_insert_base_all(all, t) ==
  Stmt("insert", schemafn(t.SQLName),
       [i \in 1..Len(t.Fields) |-> colname(t.Fields[i])],
       [i \in 1..Len(t.Fields) |-> nth(i - 1)],
       <<>>, "", <<>>, <<>>, <<>>)

\* sqlstr_insert_base: INSERT INTO t (fields) VALUES ($1, ..)
sqlstr_insert_base(all, t) ==
  LET fields == SelectSeq(t.Fields, LAMBDA f : ~(f.IsSequence /\ ~all))
  IN Stmt("insert", schemafn(t.SQLName),
          [i \in 1..Len(fields) |-> colname(fields[i])],
          [i \in 1..Len(fields) |-> nth(i - 1)],
          <<>>, "", <<>>, <<>>, <<>>)

\* sqlstr_insert: the base insert without the sequence, RETURNING the sequence
sqlstr_insert(t) ==
  LET lines == sqlstr_insert_base(FALSE, t)
  IN IF hasSequence(t)
     THEN [lines EXCEPT !.returning = <<colname(seqField(t))>>]
     ELSE lines

\* sqlstr_update_base: the count of non-primary fields and the SET list
sqlstr_update_base(prefix, t) ==
  LET fields == SelectSeq(t.Fields, LAMBDA f : ~f.IsPrimary)
  IN [n |-> Len(fields),
      sets |-> [i \in 1..Len(fields) |->
                  IF prefix # ""
                  THEN SetItem(colname(fields[i]), 0, fields[i].SQLName)
                  ELSE SetItem(colname(fields[i]), nth(i - 1), "")]]

\* sqlstr_update: UPDATE t SET .. WHERE pk = $n+1 AND ..
sqlstr_update(t) ==
  LET base == sqlstr_update_base("", t)
  IN Stmt("update", schemafn(t.SQLName), <<>>, <<>>, <<>>, "",
          base.sets,
          [i \in 1..Len(t.PrimaryKeys) |->
             Cond(colname(t.PrimaryKeys[i]), nth(base.n + i - 1))],
          <<>>)

\* sqlstr_upsert: the all-columns insert, ON CONFLICT (pks) DO, then the
\* lines of the update base after its first ("UPDATE t SET ") line
sqlstr_upsert(t) ==
  LET lines == sqlstr_insert_base(TRUE, t)
      update == sqlstr_update_base("EXCLUDED.", t)
  IN [lines EXCEPT !.kind = "upsert",
                   !.conflict = [i \in 1..Len(t.PrimaryKeys) |-> t.PrimaryKeys[i].SQLName],
                   !.do = "DO ",
                   !.sets = update.sets,
                   !.returning = IF hasSequence(t) THEN <<colname(seqField(t))>> ELSE <<>>]

\* sqlstr_delete: DELETE FROM t WHERE pk = $1 AND ..
sqlstr_delete(t) ==
  Stmt("delete", schemafn(t.SQLName), <<>>, <<>>, <<>>, "", <<>>,
       [i \in 1..Len(t.PrimaryKeys) |-> Cond(colname(t.PrimaryKeys[i]), nth(i - 1))],
       <<>>)

\* sqlstr_index: SELECT all table columns WHERE index field = $1 AND ..
sqlstr_index(t, ixFields) ==
  Stmt("select", schemafn(t.SQLName),
       [i \in 1..Len(t.Fields) |-> colname(t.Fields[i])],
       <<>>, <<>>, "", <<>>,
       [i \in 1..Len(ixFields) |-> Cond(colname(ixFields[i]), nth(i - 1))],
       <<>>)

\* db_prefix: the argument names of insert (skip) and upsert calls
db_prefix(skip, t) ==
  LET ignore == IF skip
                THEN {t.Fields[i].GoName : i \in {j \in 1..Len(t.Fields) : t.Fields[j].IsSequence}}
                ELSE {}
  IN names_ignore(short(t) \o ".", t, ignore)

\* db_update with the primary keys first
db_update_keys_first(t) ==
  names(short(t) \o ".", t.PrimaryKeys)
    \o names_ignore(short(t) \o ".", t, {t.PrimaryKeys[i].GoName : i \in 1..Len(t.PrimaryKeys)})

\* db_update: the non-primary fields, then the primary keys
db_update(t) ==
  LET prefix == short(t) \o "."
      ignore == {t.PrimaryKeys[i].GoName : i \in 1..Len(t.PrimaryKeys)}
  IN names_ignore(prefix, t, ignore) \o names(prefix, t.PrimaryKeys)

(***************************************************************************)
(* The database behind the DB interface (Exec, QueryRow): one table with   *)
(* a primary-key constraint and a sequence, and no other writers.          *)
(***************************************************************************)
\* the value a column with a declared default gets when an INSERT omits it
DefaultValue == 1

\* errors; an error value is the chain of its wrappers, nil is the empty chain
NoError == <<>>

ErrNoRows == <<"ErrNoRows">>

ErrConn == <<"ErrConn">>

ErrSyntax == <<"ErrSyntax">>

ErrConstraint == <<"ErrConstraint">>

ErrScan == <<"ErrScan">>

ColNames(t) == {t.Fields[i].SQLName : i \in 1..Len(t.Fields)}

FieldOf(t, c) == t.Fields[CHOOSE i \in 1..Len(t.Fields) : t.Fields[i].SQLName = c]

Key(t, row) == [i \in 1..Len(t.PrimaryKeys) |-> row[t.PrimaryKeys[i].SQLName]]

\* the placeholders a statement uses
Placeholders(st) ==
  Range(st.vals) \cup {st.sets[i].ph : i \in {j \in 1..Len(st.sets) : st.sets[j].excluded = ""}}
                 \cup {st.where[i].ph : i \in 1..Len(st.where)}

\* the statement parses, names columns of the table, and its parameters
\* $1..$n are exactly the n arguments passed
WellFormed(t, st, args) ==
  /\ st.table = t.SQLName
  /\ Range(st.cols) \subseteq ColNames(t)
  /\ {st.sets[i].col : i \in 1..Len(st.sets)} \subseteq ColNames(t)
  /\ {st.where[i].col : i \in 1..Len(st.where)} \subseteq ColNames(t)
  /\ Range(st.returning) \subseteq ColNames(t)
  /\ Placeholders(st) = 1..Len(args)
  /\ \/ /\ st.kind \in {"insert", "upsert"}
        /\ Len(st.cols) >= 1
        /\ Len(st.cols) = Len(st.vals)
        /\ Cardinality(Range(st.cols)) = Len(st.cols)
        /\ st.kind = "upsert" =>
             /\ st.do = "DO UPDATE SET "
             /\ Len(st.sets) >= 1
             /\ Range(st.conflict) = Range([i \in 1..Len(t.PrimaryKeys) |-> t.PrimaryKeys[i].SQLName])
             /\ \A i \in 1..Len(st.sets) : st.sets[i].excluded \in ColNames(t)
     \/ /\ st.kind = "update"
        /\ Len(st.sets) >= 1
        /\ Len(st.where) >= 1
     \/ /\ st.kind \in {"delete", "select"}
        /\ Len(st.where) >= 1

\* the row an INSERT proposes: listed columns from the arguments, the
\* sequence column from the sequence, other columns their default or NULL
Proposed(t, sq, st, args) ==
  [c \in ColNames(t) |->
     IF c \in Range(st.cols)
     THEN args[st.vals[CHOOSE i \in 1..Len(st.cols) : st.cols[i] = c]]
     ELSE IF FieldOf(t, c).IsSequence THEN sq + 1
     ELSE IF FieldOf(t, c).HasDefault THEN DefaultValue
     ELSE Nil]

\* col = $n is true of a row (NULL equals nothing)
Matches(row, where, args) ==
  \A i \in 1..Len(where) :
     /\ args[where[i].ph] # Nil
     /\ row[where[i].col] = args[where[i].ph]

\* the row after the SET list of an UPDATE
Assigned(row, sets, args) ==
  [c \in DOMAIN row |->
     IF \E i \in 1..Len(sets) : sets[i].col = c
     THEN args[sets[CHOOSE i \in 1..Len(sets) :
                       /\ sets[i].col = c
                       /\ \A j \in (i+1)..Len(sets) : sets[j].col # c].ph]
     ELSE row[c]]

\* the row after the DO UPDATE SET list of an upsert
Excluded(row, sets, prop) ==
  [c \in DOMAIN row |->
     IF \E i \in 1..Len(sets) : sets[i].col = c
     THEN prop[sets[CHOOSE i \in 1..Len(sets) : sets[i].col = c].excluded]
     ELSE row[c]]

Result(err, d, sq, rows) == [err |-> err, db |-> d, seqval |-> sq, rows |-> rows]

Returned(row, st) == [i \in 1..Len(st.returning) |-> row[st.returning[i]]]

\* the rows a statement with a RETURNING list hands back for the row it wrote
Returning(row, st) == IF st.returning = <<>> THEN <<>> ELSE <<Returned(row, st)>>

\* the sequence after an INSERT: a sequence column left out of the column
\* list draws the next value, whether or not the row is stored
NextVal(t, sq, st) ==
  IF \E i \in 1..Len(t.Fields) :
        t.Fields[i].IsSequence /\ t.Fields[i].SQLName \notin Range(st.cols)
  THEN sq + 1 ELSE sq

\* INSERT (with or without ON CONFLICT .. DO UPDATE) of the proposed row
RunInsert(t, d, sq2, st, prop) ==
  IF \E i \in 1..Len(t.PrimaryKeys) : prop[t.PrimaryKeys[i].SQLName] = Nil
  THEN Result(ErrConstraint, d, sq2, <<>>)
  ELSE IF \A r \in d : Key(t, r) # Key(t, prop)
  THEN Result(NoError, d \cup {prop}, sq2, Returning(prop, st))
  ELSE IF st.kind = "insert" THEN Result(ErrConstraint, d, sq2, <<>>)
  ELSE \* the conflicting row takes the SET list
       Result(NoError,
              {IF Key(t, r) = Key(t, prop) THEN Excluded(r, st.sets, prop) ELSE r : r \in d},
              sq2,
              Returning(Excluded(CHOOSE r \in d : Key(t, r) = Key(t, prop), st.sets, prop), st))

\* UPDATE: new is the table with the matching rows assigned
RunUpdate(t, d, sq, new) ==
  IF \E r \in new : \E i \in 1..Len(t.PrimaryKeys) : r[t.PrimaryKeys[i].SQLName] = Nil
  THEN Result(ErrConstraint, d, sq, <<>>)
  ELSE IF Cardinality({Key(t, r) : r \in new}) # Cardinality(d)
  THEN Result(ErrConstraint, d, sq, <<>>)
  ELSE Result(NoError, new, sq, <<>>)

\* SELECT: the first matching row, in the order of the column list
RunSelect(d, sq, st, hit) ==
  IF hit = {} THEN Result(NoError, d, sq, <<>>)
  ELSE Result(NoError, d, sq,
              <<[i \in 1..Len(st.cols) |-> (CHOOSE x \in hit : TRUE)[st.cols[i]]]>>)

\* run one statement: the error, the table and sequence afterwards, and the
\* result rows (RETURNING or SELECT)
DBRun(t, d, sq, st, args, fail) ==
  IF fail THEN Result(ErrConn, d, sq, <<>>)
  ELSE IF ~WellFormed(t, st, args) THEN Result(ErrSyntax, d, sq, <<>>)
  ELSE IF st.kind \in {"insert", "upsert"}
  THEN RunInsert(t, d, NextVal(t, sq, st), st, Proposed(t, sq, st, args))
  ELSE IF st.kind = "update"
  THEN RunUpdate(t, d, sq,
                 {IF Matches(r, st.where, args) THEN Assigned(r, st.sets, args) ELSE r : r \in d})
  ELSE IF st.kind = "delete"
  THEN Result(NoError, {r \in d : ~Matches(r, st.where, args)}, sq, <<>>)
  ELSE RunSelect(d, sq, st, {r \in d : Matches(r, st.where, args)})

(***************************************************************************)
(* The "db" partial: the Error wrapper and logerror                        *)
(***************************************************************************)
\* Error.Unwrap
Unwrap(err) == Tail(err)

\* errors.Is: the target is the error or one of the errors it wraps
ErrorsIs(err, target) ==
  \E i \in 1..Len(err) : SubSeq(err, i, Len(err)) = target

\* logerror that returns the error as it came
logerror_bare(err, sink) ==
  [err |-> err, logged |-> IF err # NoError /\ sink THEN 1 ELSE 0]

\* logerror: nil for nil, else the wrapped error; the sink is called when set
logerror(err, sink) ==
  IF err = NoError
  THEN [err |-> NoError, logged |-> 0]
  ELSE [err |-> <<"Error">> \o err, logged |-> IF sink THEN 1 ELSE 0]

(***************************************************************************)
(* Generated record code.  A record is its field values (by Go name) and   *)
(* the _exists and _deleted flags; an operation yields the returned error, *)
(* the record, the database and the driver calls it made.                  *)
(***************************************************************************)
\* the value of an argument expression: a field of the receiver, or the
\* function parameter of that name
Eval(r, e) == r.vals[e.name]

ArgVals(r, exprs) == [i \in 1..Len(exprs) |-> Eval(r, exprs[i])]

\* the error of db.Exec(..) or of db.QueryRow(..).Scan(dests..)
CallErr(mode, res, dests) ==
  IF res.err # NoError THEN res.err
  ELSE IF mode = "Exec" THEN NoError
  ELSE IF res.rows = <<>> THEN ErrNoRows
  ELSE IF Len(res.rows[1]) # Len(dests) THEN ErrScan
  ELSE NoError

\* the record after Scan stored the returned row in its destinations
Scanned(r, row, dests) ==
  [r EXCEPT !.vals =
     [g \in DOMAIN r.vals |->
        IF \E i \in 1..Len(dests) : dests[i] = g
        THEN row[CHOOSE i \in 1..Len(dests) : dests[i] = g]
        ELSE r.vals[g]]]

\* the driver call's outcome given the database's answer res
Called(mode, r, st, exprs, argv, dests, res) ==
  [err |-> CallErr(mode, res, dests),
   rec |-> IF mode = "QueryRow" /\ CallErr(mode, res, dests) = NoError
           THEN Scanned(r, res.rows[1], dests) ELSE r,
   db |-> res.db, seqval |-> res.seqval,
   call |-> [mode |-> mode, stmt |-> st, exprs |-> exprs, args |-> argv, dests |-> dests]]

\* db.Exec(..) or db.QueryRow(..).Scan(dests..)
Call(mode, t, r, d, sq, st, exprs, dests, fail) ==
  Called(mode, r, st, exprs, ArgVals(r, exprs), dests,
         DBRun(t, d, sq, st, ArgVals(r, exprs), fail))

\* the outcome of an operation: what ran, the error before (raw) and after
\* logerror, the record, the database and the driver calls made
Outcome(op, le, raw, r, d, sq, calls) ==
  [ran |-> <<op>>, err |-> le.err, raw |-> raw, logged |-> le.logged,
   rec |-> r, db |-> d, seqval |-> sq, calls |-> calls]

\* an operation that returns before any driver call
Rejected(op, r, d, sq, e, sink) ==
  Outcome(op, logerror(e, sink), e, r, d, sq, <<>>)

\* an operation that sets its flags whether the driver call failed or not
FinishedFlagsFirst(op, c, r, exists, deleted, sink) ==
  Outcome(op, logerror(c.err, sink), c.err,
          [vals |-> IF c.err # NoError THEN r.vals ELSE c.rec.vals,
           exists |-> exists, deleted |-> deleted],
          c.db, c.seqval, <<c.call>>)

\* an operation that made the driver call c; on success it stores the
\* scanned record with the flags it sets
Finished(op, c, r, exists, deleted, sink) ==
  Outcome(op, logerror(c.err, sink), c.err,
          IF c.err # NoError THEN r
          ELSE [vals |-> c.rec.vals, exists |-> exists, deleted |-> deleted],
          c.db, c.seqval, <<c.call>>)

ErrInsertFailed(e) == <<"ErrInsertFailed", e>>

ErrUpdateFailed(e) == <<"ErrUpdateFailed", e>>

ErrUpsertFailed(e) == <<"ErrUpsertFailed", e>>

(***************************************************************************)
(* typedef of the pgx template set that uses db_prefix / db_update         *)
(* (statements fixed at generation time, _exists only)                     *)
(***************************************************************************)
\* Deleted(): this typedef has no _deleted field
Deleted002(r) == ~r.exists

\* the driver call of Insert and Upsert: Exec for a manual table, else
\* QueryRow and a Scan into the primary-key fields
Write002(t, r, d, sq, st, exprs, fail) ==
  IF t.Manual
  THEN Call("Exec", t, r, d, sq, st, exprs, <<>>, fail)
  ELSE Call("QueryRow", t, r, d, sq, st, exprs,
            [i \in 1..Len(t.PrimaryKeys) |-> t.PrimaryKeys[i].GoName], fail)

Insert002(t, r, d, sq, sink, fail) ==
  IF r.exists THEN Rejected("Insert", r, d, sq, ErrInsertFailed("ErrAlreadyExists"), sink)
  ELSE Finished("Insert",
                Write002(t, r, d, sq, sqlstr_insert(t), db_prefix(TRUE, t), fail),
                r, TRUE, r.deleted, sink)

Update002(t, r, d, sq, sink, fail) ==
  IF ~r.exists THEN Rejected("Update", r, d, sq, ErrUpdateFailed("ErrDoesNotExist"), sink)
  ELSE Finished("Update",
                Call("Exec", t, r, d, sq, sqlstr_update(t), db_update(t), <<>>, fail),
                r, r.exists, r.deleted, sink)

Save002(t, r, d, sq, sink, fail) ==
  IF r.exists
  THEN Update002(t, r, d, sq, sink, fail)
  ELSE Insert002(t, r, d, sq, sink, fail)

Upsert002(t, r, d, sq, sink, fail) ==
  Finished("Upsert",
           Write002(t, r, d, sq, sqlstr_upsert(t), db_prefix(FALSE, t), fail),
           r, TRUE, r.deleted, sink)

Delete002(t, r, d, sq, sink, fail) ==
  IF ~r.exists THEN Rejected("Delete", r, d, sq, NoError, sink)
  ELSE Finished("Delete",
                Call("Exec", t, r, d, sq, sqlstr_delete(t), names("", t.PrimaryKeys), <<>>, fail),
                r, FALSE, r.deleted, sink)

(***************************************************************************)
(* typedef of templates/pgx/schema.dbtpl.go.tpl (insert, update and upsert *)
(* statements assembled at run time, _exists and _deleted)                 *)
(***************************************************************************)
DeletedPgx(r) == r.deleted

\* the fields a run-time statement lists: a column with a default is
\* listed only when the record's field is not nil
Listed(t, r, keep) ==
  SelectSeq(t.Fields, LAMBDA f :
     /\ f.GoName \in keep
     /\ has_default(f) => r.vals[f.GoName] # Nil)

GoNamesWhere(t, P(_)) == {t.Fields[i].GoName : i \in {j \in 1..Len(t.Fields) : P(t.Fields[j])}}

\* the insert statement assembled from the listed fields
InsertStmtPgx(t, fields) ==
  Stmt("insert", schemafn(t.SQLName),
       [i \in 1..Len(fields) |-> colname(fields[i])],
       [i \in 1..Len(fields) |-> i],
       <<>>, "", <<>>, <<>>,
       IF hasSequence(t) THEN <<seqField(t).SQLName>> ELSE <<>>)

\* the update statement assembled from the listed non-primary fields
UpdateStmtPgx(t, fields) ==
  Stmt("update", schemafn(t.SQLName), <<>>, <<>>, <<>>, "",
       [i \in 1..Len(fields) |-> SetItem(colname(fields[i]), i, "")],
       [i \in 1..Len(t.PrimaryKeys) |-> Cond(colname(t.PrimaryKeys[i]), Len(fields) + i)],
       <<>>)

\* the upsert statement assembled from the listed fields
UpsertStmtPgx(t, fields, upd) ==
  Stmt("upsert", schemafn(t.SQLName),
       [i \in 1..Len(fields) |-> colname(fields[i])],
       [i \in 1..Len(fields) |-> i],
       [i \in 1..Len(t.PrimaryKeys) |-> colname(t.PrimaryKeys[i])],
       "DO UPDATE SET ",
       [i \in 1..Len(upd) |-> SetItem(colname(upd[i]), 0, colname(upd[i]))],
       <<>>,
       IF hasSequence(t) THEN <<seqField(t).SQLName>> ELSE <<>>)

\* the driver call of Insert and Upsert: QueryRow and a Scan into the
\* sequence field when the table has one, else Exec
WritePgx(t, r, d, sq, st, fields, fail) ==
  IF hasSequence(t)
  THEN Call("QueryRow", t, r, d, sq, st, names(short(t) \o ".", fields),
            <<seqField(t).GoName>>, fail)
  ELSE Call("Exec", t, r, d, sq, st, names(short(t) \o ".", fields), <<>>, fail)

\* the fields Insert and Upsert list
InsertFieldsPgx(t, r) == Listed(t, r, GoNamesWhere(t, LAMBDA f : ~f.IsSequence))

\* the fields Update sets
UpdateFieldsPgx(t, r) == Listed(t, r, GoNamesWhere(t, LAMBDA f : ~f.IsPrimary))

\* Insert without the _exists guard
InsertPgxUnguarded(t, r, d, sq, sink, fail) ==
  Finished("Insert",
           WritePgx(t, r, d, sq, InsertStmtPgx(t, InsertFieldsPgx(t, r)),
                    InsertFieldsPgx(t, r), fail),
           r, TRUE, r.deleted, sink)

InsertPgx(t, r, d, sq, sink, fail) ==
  IF r.exists THEN Rejected("Insert", r, d, sq, ErrInsertFailed("ErrAlreadyExists"), sink)
  ELSE IF r.deleted THEN Rejected("Insert", r, d, sq, ErrInsertFailed("ErrMarkedForDeletion"), sink)
  ELSE Finished("Insert",
                WritePgx(t, r, d, sq, InsertStmtPgx(t, InsertFieldsPgx(t, r)),
                         InsertFieldsPgx(t, r), fail),
                r, TRUE, r.deleted, sink)

UpdatePgx(t, r, d, sq, sink, fail) ==
  IF ~r.exists THEN Rejected("Update", r, d, sq, ErrUpdateFailed("ErrDoesNotExist"), sink)
  ELSE IF r.deleted THEN Rejected("Update", r, d, sq, ErrUpdateFailed("ErrMarkedForDeletion"), sink)
  ELSE Finished("Update",
                Call("Exec", t, r, d, sq, UpdateStmtPgx(t, UpdateFieldsPgx(t, r)),
                     names(short(t) \o ".", UpdateFieldsPgx(t, r))
                        \o names(short(t) \o ".", t.PrimaryKeys),
                     <<>>, fail),
                r, r.exists, r.deleted, sink)

\* Save that always inserts
SavePgxInsertOnly(t, r, d, sq, sink, fail) == InsertPgx(t, r, d, sq, sink, fail)

SavePgx(t, r, d, sq, sink, fail) ==
  IF r.exists
  THEN UpdatePgx(t, r, d, sq, sink, fail)
  ELSE InsertPgx(t, r, d, sq, sink, fail)

UpsertPgx(t, r, d, sq, sink, fail) ==
  IF r.deleted THEN Rejected("Upsert", r, d, sq, ErrUpsertFailed("ErrMarkedForDeletion"), sink)
  ELSE Finished("Upsert",
                WritePgx(t, r, d, sq,
                         UpsertStmtPgx(t, InsertFieldsPgx(t, r),
                                       SelectSeq(InsertFieldsPgx(t, r), LAMBDA f : ~f.IsPrimary)),
                         InsertFieldsPgx(t, r), fail),
                r, TRUE, r.deleted, sink)

DeletePgx(t, r, d, sq, sink, fail) ==
  IF ~r.exists THEN Rejected("Delete", r, d, sq, NoError, sink)
  ELSE IF r.deleted THEN Rejected("Delete", r, d, sq, NoError, sink)
  ELSE Finished("Delete",
                Call("Exec", t, r, d, sq, sqlstr_delete(t),
                     names(short(t) \o ".", t.PrimaryKeys), <<>>, fail),
                r, r.exists, TRUE, sink)

\* Update, Save and Upsert are emitted unless every field is a primary key
EmitsUpdatePgx(t) == Len(t.Fields) # Len(t.PrimaryKeys)

(***************************************************************************)
(* index template (the same in both template sets): lookup by the          *)
(* primary-key index                                                       *)
(***************************************************************************)
\* the function's parameters (one per index field, named as the field) and
\* the record T{_exists: true} the row is scanned into
Params(t, ixFields, key) ==
  [vals |-> [g \in {t.Fields[i].GoName : i \in 1..Len(t.Fields)} |->
               IF \E i \in 1..Len(ixFields) : ixFields[i].GoName = g
               THEN key[CHOOSE i \in 1..Len(ixFields) : ixFields[i].GoName = g]
               ELSE 0],
   exists |-> TRUE, deleted |-> FALSE]

\* what the lookup returns after the call c: the pointer to the record (no
\* record when the call failed) and the error
LookedAs(c, le) ==
  [ran |-> <<"Lookup">>, err |-> le.err, raw |-> c.err, logged |-> le.logged,
   found |-> c.err = NoError,
   rec |-> IF c.err = NoError THEN <<c.rec>> ELSE <<>>,
   db |-> c.db, seqval |-> c.seqval, calls |-> <<c.call>>]

\* the error of the call goes through logerror
Looked(c, sink) == LookedAs(c, logerror(c.err, sink))

\* TByKey(ctx, db, key..): the lookup by the primary-key index
IndexLookup(t, key, d, sq, sink, fail) ==
  Looked(Call("QueryRow", t, Params(t, t.PrimaryKeys, key), d, sq,
              sqlstr_index(t, t.PrimaryKeys), names("", t.PrimaryKeys),
              [i \in 1..Len(t.Fields) |-> t.Fields[i].GoName], fail),
         sink)

(***************************************************************************)
(* The program: one receiver variable of the generated type, used against  *)
(* the table                                                               *)
(***************************************************************************)
Templates == {"pgx", "part_002"}

GoNames(t) == {t.Fields[i].GoName : i \in 1..Len(t.Fields)}

GoField(t, g) == t.Fields[CHOOSE i \in 1..Len(t.Fields) : t.Fields[i].GoName = g]

\* the zero value of a field: nil for the pointer type of a defaulted column
Zero(f) == IF f.HasDefault THEN Nil ELSE 0

\* the values a caller stores in a field
FieldVals(f) ==
  (IF f.IsSequence THEN 0..MaxSeq ELSE 0..MaxVal) \cup (IF f.HasDefault THEN {Nil} ELSE {})

\* &T{}: a new record
NewRecord(t) ==
  [vals |-> [g \in GoNames(t) |-> Zero(GoField(t, g))], exists |-> FALSE, deleted |-> FALSE]

\* the keys a caller looks up: one value of its field for each primary key
KeyVals(t) ==
  {k \in [1..Len(t.PrimaryKeys) -> 0..(IF MaxSeq > MaxVal THEN MaxSeq ELSE MaxVal)] :
     \A i \in 1..Len(t.PrimaryKeys) : k[i] \in FieldVals(t.PrimaryKeys[i])}

RecKey(t, r) == [i \in 1..Len(t.PrimaryKeys) |-> r.vals[t.PrimaryKeys[i].GoName]]

Exists(r) == r.exists

Deleted(r) == IF tpl = "pgx" THEN DeletedPgx(r) ELSE Deleted002(r)

\* whether the typedef has the operation
Emits(op) ==
  /\ Len(table.PrimaryKeys) >= 1
  /\ (tpl = "pgx" /\ op \in {"Update", "Save", "Upsert"}) => EmitsUpdatePgx(table)

\* the outcome of an operation on the receiver
Run(op, fail) ==
  IF tpl = "pgx"
  THEN CASE op = "Insert" -> InsertPgx(table, rec, db, seqval, errorf, fail)
         [] op = "Update" -> UpdatePgx(table, rec, db, seqval, errorf, fail)
         [] op = "Save"   -> SavePgx(table, rec, db, seqval, errorf, fail)
         [] op = "Upsert" -> UpsertPgx(table, rec, db, seqval, errorf, fail)
         [] op = "Delete" -> DeletePgx(table, rec, db, seqval, errorf, fail)
  ELSE CASE op = "Insert" -> Insert002(table, rec, db, seqval, errorf, fail)
         [] op = "Update" -> Update002(table, rec, db, seqval, errorf, fail)
         [] op = "Save"   -> Save002(table, rec, db, seqval, errorf, fail)
         [] op = "Upsert" -> Upsert002(table, rec, db, seqval, errorf, fail)
         [] op = "Delete" -> Delete002(table, rec, db, seqval, errorf, fail)

\* the operation made its driver call and returned nil
Succeeded(o) == o.err = NoError /\ o.calls # <<>>

Init ==
  /\ tpl \in Templates
  /\ table \in Tables
  /\ rec = NewRecord(table)
  /\ db = {}
  /\ seqval = 0
  /\ errorf = FALSE
  /\ live = {}
  /\ delOK = FALSE
  /\ crec = <<>>
  /\ cout = <<>>

\* r = &T{}
New ==
  /\ rec # NewRecord(table) \/ delOK
  /\ rec' = NewRecord(table)
  /\ delOK' = FALSE
  /\ UNCHANGED <<tpl, table, db, seqval, errorf, live, codecVars>>

\* r.Field = v
SetField ==
  \E g \in GoNames(table) : \E v \in FieldVals(GoField(table, g)) :
     /\ rec.vals[g] # v
     /\ rec' = [rec EXCEPT !.vals[g] = v]
     /\ UNCHANGED <<tpl, table, db, seqval, errorf, live, delOK, codecVars>>

\* SetErrorLogger: the caller sets or clears the error-log sink
SetErrorLogger ==
  /\ errorf' = ~errorf
  /\ UNCHANGED <<tpl, table, rec, db, seqval, live, delOK, codecVars>>

\* the caller's record, the table and the history after an outcome o
Commit(o) ==
  /\ rec' = o.rec
  /\ db' = o.db
  /\ seqval' = o.seqval
  /\ live' = IF Succeeded(o) /\ o.ran \in {<<"Insert">>, <<"Upsert">>}
             THEN live \cup {RecKey(table, o.rec)}
             ELSE IF Succeeded(o) /\ o.ran = <<"Delete">>
             THEN live \ {RecKey(table, rec)}
             ELSE live
  /\ delOK' = (delOK \/ (Succeeded(o) /\ o.ran = <<"Delete">>))

\* the typedef has the operation, and the table and its sequence have room
CanDo(op) ==
  /\ Emits(op)
  /\ hasSequence(table) /\ op \in {"Insert", "Save", "Upsert"} => seqval < MaxSeq
  /\ op \in {"Insert", "Save", "Upsert"} => Cardinality(db) < MaxRows

\* one call of r.Insert(ctx, db) that the driver serves; a call the driver
\* fails leaves the record and the table as they are
Insert ==
  /\ CanDo("Insert")
  /\ Commit(Run("Insert", FALSE))
  /\ UNCHANGED <<tpl, table, errorf, codecVars>>

\* r.Update(ctx, db)
Update ==
  /\ CanDo("Update")
  /\ Commit(Run("Update", FALSE))
  /\ UNCHANGED <<tpl, table, errorf, codecVars>>

\* r.Save(ctx, db)
Save ==
  /\ CanDo("Save")
  /\ Commit(Run("Save", FALSE))
  /\ UNCHANGED <<tpl, table, errorf, codecVars>>

\* r.Upsert(ctx, db)
Upsert ==
  /\ CanDo("Upsert")
  /\ Commit(Run("Upsert", FALSE))
  /\ UNCHANGED <<tpl, table, errorf, codecVars>>

\* r.Delete(ctx, db)
Delete ==
  /\ CanDo("Delete")
  /\ Commit(Run("Delete", FALSE))
  /\ UNCHANGED <<tpl, table, errorf, codecVars>>

\* the caller keeps the record a lookup returned
Keep(o) ==
  /\ o.found
  /\ rec' = o.rec[1]
  /\ delOK' = FALSE
  /\ db' = o.db
  /\ seqval' = o.seqval

\* r, err = TByKey(ctx, db, key..) where the caller keeps the returned record
Lookup ==
  /\ Len(table.PrimaryKeys) >= 1
  /\ \E key \in KeyVals(table) : Keep(IndexLookup(table, key, db, seqval, errorf, FALSE))
  /\ UNCHANGED <<tpl, table, errorf, live, codecVars>>

Next ==
  \/ New
  \/ SetField
  \/ Insert
  \/ Update
  \/ Save
  \/ Upsert
  \/ Delete
  \/ Lookup

Spec == Init /\ [][Next]_vars

\* the same record type with the error-log sink set and cleared at will
NextErr ==
  \/ Next
  \/ SetErrorLogger

SpecErr == Init /\ [][NextErr]_vars

(***************************************************************************)
(* row_marshaler: the row-literal parser and escaper (types.go).  A Go      *)
(* string is the sequence of its bytes; a byte is written as a one-letter  *)
(* string, the control bytes by name.                                      *)
(***************************************************************************)
Quote == "\""

Backslash == "\\"

LF == "LF"

CR == "CR"

TAB == "TAB"

NUL == "NUL"

\* unicode.IsSpace on the bytes in use
IsSpace(ch) == ch \in {" ", LF, CR, TAB}

\* strings.TrimSpace
RECURSIVE TrimLeft(_)
TrimLeft(s) == IF s # <<>> /\ IsSpace(Head(s)) THEN TrimLeft(Tail(s)) ELSE s

RECURSIVE TrimRight(_)
TrimRight(s) ==
  IF s # <<>> /\ IsSpace(s[Len(s)]) THEN TrimRight(SubSeq(s, 1, Len(s) - 1)) ELSE s

TrimSpace(s) == TrimRight(TrimLeft(s))

\* errors.go
ErrEmptyInput == <<"input string is empty">>

NewParseError(message) == <<"parse error", message>>

\* Token; Position counts bytes from the start of the trimmed input
Token(value, raw, quoted, position) ==
  [Value |-> value, RawValue |-> raw, Quoted |-> quoted, Position |-> position]

NoToken == Token(<<>>, <<>>, FALSE, 0)

\* what a parsing step returns: the token, the next position, the error and
\* the position the error names
Step(token, pos, err, at) == [token |-> token, pos |-> pos, err |-> err, at |-> at]

\* the byte at a 0-based Go index
At(content, pos) == content[pos + 1]

\* content[from:to]
Slice(content, from, to) == SubSeq(content, from + 1, to)

\* the escape switch of parseQuotedString: what a byte after a backslash writes
Unescaped(ch) ==
  CASE ch = "n" -> <<LF>>
    [] ch = "r" -> <<CR>>
    [] ch = "t" -> <<TAB>>
    [] ch = Backslash -> <<Backslash>>
    [] ch = Quote -> <<Quote>>
    [] ch = "," -> <<",">>
    [] ch = "0" -> <<NUL>>
    [] OTHER -> <<Backslash, ch>>

\* the loop of parseQuotedString from pos on
RECURSIVE QuotedLoop(_, _, _, _, _, _)
QuotedLoop(content, tokenStart, startPos, pos, value, escaped) ==
  IF pos >= Len(content)
  THEN Step(NoToken, pos, NewParseError("unclosed quoted string"), startPos + tokenStart)
  ELSE IF escaped
  THEN QuotedLoop(content, tokenStart, startPos, pos + 1,
                  value \o Unescaped(At(content, pos)), FALSE)
  ELSE IF At(content, pos) = Backslash
  THEN QuotedLoop(content, tokenStart, startPos, pos + 1, value, TRUE)
  ELSE IF At(content, pos) = Quote
  THEN IF pos + 1 < Len(content) /\ At(content, pos + 1) = Quote
       THEN QuotedLoop(content, tokenStart, startPos, pos + 2, value \o <<Quote>>, FALSE)
       ELSE Step(Token(value, Slice(content, tokenStart, pos + 1), TRUE,
                       startPos + tokenStart),
                 pos + 1, <<>>, 0)
  ELSE QuotedLoop(content, tokenStart, startPos, pos + 1,
                  value \o <<At(content, pos)>>, FALSE)

parseQuotedString(content, pos, startPos) ==
  IF pos >= Len(content) \/ At(content, pos) # Quote
  THEN Step(NoToken, pos, NewParseError("expected opening quote"), startPos + pos)
  ELSE QuotedLoop(content, pos, startPos, pos + 1, <<>>, FALSE)

\* the loop of parseUnquotedValue from pos on
RECURSIVE UnquotedLoop(_, _, _, _, _)
UnquotedLoop(content, tokenStart, startPos, pos, value) ==
  IF pos >= Len(content) \/ At(content, pos) \in {",", ")"} \/ IsSpace(At(content, pos))
  THEN Step(Token(TrimSpace(value), Slice(content, tokenStart, pos), FALSE,
                  startPos + tokenStart),
            pos, <<>>, 0)
  ELSE IF At(content, pos) = Quote
  THEN Step(NoToken, pos, NewParseError("unexpected quote in unquoted value"),
            startPos + pos)
  ELSE UnquotedLoop(content, tokenStart, startPos, pos + 1, value \o <<At(content, pos)>>)

parseUnquotedValue(content, pos, startPos) ==
  UnquotedLoop(content, pos, startPos, pos, <<>>)

\* the inner loops of parseTokens that skip white space
RECURSIVE SkipSpace(_, _)
SkipSpace(content, pos) ==
  IF pos < Len(content) /\ IsSpace(At(content, pos)) THEN SkipSpace(content, pos + 1) ELSE pos

\* what ParseRowLiteral returns
Parsed(tokens, err, at) == [tokens |-> tokens, err |-> err, at |-> at]

RECURSIVE TokensLoop(_, _, _, _)

\* parseTokens after a value was read: the separator or the end
AfterValue(content, startPos, tokens, pos) ==
  IF pos < Len(content)
  THEN IF At(content, pos) = ","
       THEN TokensLoop(content, startPos, pos + 1, tokens)
       ELSE Parsed(<<>>, NewParseError("expected ',' or end of row"), startPos + pos)
  ELSE Parsed(tokens, <<>>, 0)

\* parseTokens with the value read by one of the two parsers
WithValue(content, startPos, tokens, step) ==
  IF step.err # <<>>
  THEN Parsed(<<>>, step.err, step.at)
  ELSE AfterValue(content, startPos, Append(tokens, step.token),
                  SkipSpace(content, step.pos))

\* parseTokens at the first byte of a value
ValueAt(content, startPos, tokens, pos) ==
  IF pos >= Len(content)
  THEN Parsed(tokens, <<>>, 0)
  ELSE WithValue(content, startPos, tokens,
                 IF At(content, pos) = Quote
                 THEN parseQuotedString(content, pos, startPos)
                 ELSE parseUnquotedValue(content, pos, startPos))

\* the outer loop of parseTokens
TokensLoop(content, startPos, pos, tokens) ==
  IF pos < Len(content)
  THEN ValueAt(content, startPos, tokens, SkipSpace(content, pos))
  ELSE Parsed(tokens, <<>>, 0)

parseTokens(content, startPos) == TokensLoop(content, startPos, 0, <<>>)

\* ParseRowLiteral on the trimmed input
ParseTrimmed(input) ==
  IF input = <<>>
  THEN Parsed(<<>>, ErrEmptyInput, 0)
  ELSE IF input[1] # "("
  THEN Parsed(<<>>, NewParseError("expected opening parenthesis '('"), 0)
  ELSE IF input[Len(input)] # ")"
  THEN Parsed(<<>>, NewParseError("expected closing parenthesis ')'"), Len(input) - 1)
  ELSE IF TrimSpace(Slice(input, 1, Len(input) - 1)) = <<>>
  THEN Parsed(<<>>, <<>>, 0)
  ELSE parseTokens(Slice(input, 1, Len(input) - 1), 1)

ParseRowLiteral(input) == ParseTrimmed(TrimSpace(input))

\* the switch of EscapeString: what one byte is written as
EscapeByteRaw(ch) == IF ch = Quote THEN <<Backslash, Quote>> ELSE <<ch>>

EscapeByte(ch) ==
  CASE ch = Quote -> <<Backslash, Quote>>
    [] ch = Backslash -> <<Backslash, Backslash>>
    [] ch = LF -> <<Backslash, "n">>
    [] ch = CR -> <<Backslash, "r">>
    [] ch = TAB -> <<Backslash, "t">>
    [] ch = NUL -> <<Backslash, "0">>
    [] OTHER -> <<ch>>

RECURSIVE EscapeBytes(_)
EscapeBytes(s) == IF s = <<>> THEN <<>> ELSE EscapeByte(Head(s)) \o EscapeBytes(Tail(s))

EscapeString(s) == <<Quote>> \o EscapeBytes(s) \o <<Quote>>

RECURSIVE Joined(_)
Joined(values) ==
  IF values = <<>> THEN <<>>
  ELSE IF Len(values) = 1 THEN Head(values)
  ELSE Head(values) \o <<",">> \o Joined(Tail(values))

BuildRowLiteral(values) == <<"(">> \o Joined(values) \o <<")">>

(***************************************************************************)
(* row_marshaler: conversion between field values and their text           *)
(* (types.go).  A field type is written by its Go name; a pointer is the   *)
(* empty tuple (nil) or the one-tuple of what it points to, a sql.Null*    *)
(* wrapper is its value and its Valid flag.                                *)
(***************************************************************************)
Digits == <<"0", "1", "2", "3", "4", "5", "6", "7", "8", "9">>

Upper == <<"F", "L", "N", "O", "S", "T", "U", "Y">>

Lower == <<"f", "l", "n", "o", "s", "t", "u", "y">>

\* strings.ToLower on the letters in use
ToLowerByte(ch) ==
  IF \E i \in 1..Len(Upper) : Upper[i] = ch
  THEN Lower[CHOOSE i \in 1..Len(Upper) : Upper[i] = ch]
  ELSE ch

ToLower(s) == [i \in 1..Len(s) |-> ToLowerByte(s[i])]

\* strings.EqualFold
EqualFold(s, t) == ToLower(s) = ToLower(t)

\* strconv.FormatUint and strconv.FormatInt in base 10
RECURSIVE FormatUint(_)
FormatUint(n) ==
  IF n < 10 THEN <<Digits[n + 1]>> ELSE Append(FormatUint(n \div 10), Digits[(n % 10) + 1])

FormatInt(n) == IF n < 0 THEN <<"-">> \o FormatUint(0 - n) ELSE FormatUint(n)

IsDigits(s) == s # <<>> /\ \A i \in 1..Len(s) : s[i] \in Range(Digits)

RECURSIVE DigitsValue(_)
DigitsValue(s) ==
  IF s = <<>> THEN 0
  ELSE 10 * DigitsValue(SubSeq(s, 1, Len(s) - 1))
       + (CHOOSE d \in 0..9 : Digits[d + 1] = s[Len(s)])

\* strconv.ParseInt in base 10 (the values in use are far from the type's range)
ParseInt(s) ==
  IF s # <<>> /\ s[1] \in {"+", "-"}
  THEN IF IsDigits(Tail(s))
       THEN [ok |-> TRUE, n |-> IF s[1] = "-" THEN 0 - DigitsValue(Tail(s)) ELSE DigitsValue(Tail(s))]
       ELSE [ok |-> FALSE, n |-> 0]
  ELSE IF IsDigits(s) THEN [ok |-> TRUE, n |-> DigitsValue(s)] ELSE [ok |-> FALSE, n |-> 0]

NullLiteral == <<"N", "U", "L", "L">>

TrueLiteral == <<"t", "r", "u", "e">>

FalseLiteral == <<"f", "a", "l", "s", "e">>

EmptyQuoted == <<Quote, Quote>>

FieldTypes ==
  {"string", "int", "bool", "*string", "*int",
   "sql.NullString", "sql.NullInt64", "sql.NullBool"}

IsPtr(type) == type \in {"*string", "*int"}

IsNull(type) == type \in {"sql.NullString", "sql.NullInt64", "sql.NullBool"}

\* Type.Elem() of a pointer type and the wrapped type of a sql.Null* type
Elem(type) ==
  CASE type \in {"*string", "sql.NullString"} -> "string"
    [] type \in {"*int", "sql.NullInt64"} -> "int"
    [] type = "sql.NullBool" -> "bool"

NullOf(v, valid) == [V |-> v, Valid |-> valid]

\* reflect.Zero
RECURSIVE ZeroOf(_)
ZeroOf(type) ==
  CASE type = "string" -> <<>>
    [] type = "int" -> 0
    [] type = "bool" -> FALSE
    [] IsPtr(type) -> <<>>
    [] IsNull(type) -> NullOf(ZeroOf(Elem(type)), FALSE)

IsZeroValue(type, v) == v = ZeroOf(type)

NewTypeMismatchError(expected, reason) == <<"type mismatch", expected, reason>>

\* what a conversion returns
Converted(v, err) == [val |-> v, err |-> err]

convertToIntTrimmed(p, type) ==
  IF p.ok THEN Converted(p.n, <<>>)
  ELSE Converted(0, NewTypeMismatchError(type, "invalid syntax"))

convertToInt(value, type) ==
  IF value = <<>> THEN Converted(0, <<>>)
  ELSE convertToIntTrimmed(ParseInt(TrimSpace(value)), type)

Yes == {<<"t", "r", "u", "e">>, <<"1">>, <<"y", "e", "s">>, <<"o", "n">>, <<"t">>, <<"y">>}

No == {<<"f", "a", "l", "s", "e">>, <<"0">>, <<"n", "o">>, <<"o", "f", "f">>, <<"f">>, <<"n">>}

convertToBoolLowered(value) ==
  IF value \in Yes THEN Converted(TRUE, <<>>)
  ELSE IF value \in No THEN Converted(FALSE, <<>>)
  ELSE Converted(FALSE, NewTypeMismatchError("bool", "must be true/false"))

convertToBool(value) ==
  IF value = <<>> THEN Converted(FALSE, <<>>)
  ELSE convertToBoolLowered(TrimSpace(ToLower(value)))

\* the basic kinds of ConvertToType
convertBasic(value, type) ==
  CASE type = "string" -> Converted(value, <<>>)
    [] type = "int" -> convertToInt(value, type)
    [] type = "bool" -> convertToBool(value)

\* a sql.Null* value from the conversion of its text
NullFrom(c, type) ==
  IF c.err # <<>> THEN Converted(ZeroOf(type), c.err)
  ELSE Converted(NullOf(c.val, TRUE), <<>>)

convertSQLNull(value, type) ==
  IF value = <<>> \/ EqualFold(value, <<"n", "u", "l", "l">>)
  THEN Converted(NullOf(ZeroOf(Elem(type)), FALSE), <<>>)
  ELSE NullFrom(convertBasic(value, Elem(type)), type)

\* a pointer to the converted element
Pointed(c) == IF c.err # <<>> THEN Converted(<<>>, c.err) ELSE Converted(<<c.val>>, <<>>)

ConvertToType(value, type) ==
  IF IsPtr(type)
  THEN IF value = <<>> THEN Converted(<<>>, <<>>)
       ELSE Pointed(convertBasic(value, Elem(type)))
  ELSE IF IsNull(type) THEN convertSQLNull(value, type)
  ELSE convertBasic(value, type)

\* the kind switch of FormatValue
formatBasic(type, v) ==
  CASE type = "string" -> EscapeString(v)
    [] type = "int" -> FormatInt(v)
    [] type = "bool" -> IF v THEN TrueLiteral ELSE FalseLiteral

formatSQLNull(type, v) ==
  IF ~v.Valid THEN NullLiteral ELSE formatBasic(Elem(type), v.V)

FormatValue(type, v) ==
  IF IsPtr(type)
  THEN IF v = <<>> THEN EmptyQuoted ELSE formatBasic(Elem(type), v[1])
  ELSE IF IsNull(type) THEN formatSQLNull(type, v)
  ELSE formatBasic(type, v)

(***************************************************************************)
(* row_marshaler: struct tags (tags.go) and Marshal / Unmarshal            *)
(* (marshaler.go).  A struct type is the sequence of its tagged fields in  *)
(* declaration order, a struct value the sequence of their values.         *)
(***************************************************************************)
TagOptions(position, omitEmpty, required, hasDefault, default) ==
  [Position |-> position, OmitEmpty |-> omitEmpty, Required |-> required,
   HasDefault |-> hasDefault, Default |-> default]

\* a field with the tag `row:"<position>"`
Plain(position) == TagOptions(position, FALSE, FALSE, FALSE, <<>>)

StructField(name, type, options) == [Name |-> name, Type |-> type, Options |-> options]

NewValidationError(name, message) == <<"validation error", name, message>>

\* the tag `row:""`, which states no options
EmptyTag == <<>>

\* the options ParseTag returns: those the tag states, none for the empty tag
TagOpts(options) ==
  IF DOMAIN options = {} THEN TagOptions(0, FALSE, FALSE, FALSE, <<>>) ELSE options

FieldInfo(T, i) ==
  [Name |-> T[i].Name, Index |-> i, Type |-> T[i].Type, Options |-> TagOpts(T[i].Options)]

\* the checks ParseTag makes on the options it has read; the empty tag
\* passes unchecked
ParseTag(name, options) ==
  IF DOMAIN options = {} THEN <<>>
  ELSE IF options.Position < 1
  THEN NewValidationError(name, "position must be >= 1 (1-indexed)")
  ELSE IF options.Required /\ options.OmitEmpty
  THEN NewValidationError(name, "conflicting options: required and omitempty")
  ELSE IF options.Required /\ options.HasDefault
  THEN NewValidationError(name, "conflicting options: required and default")
  ELSE <<>>

\* what GetStructFields returns: the fields by position
StructFields(fields, err) == [fields |-> fields, err |-> err]

\* the loop of GetStructFields over the fields in declaration order
RECURSIVE FieldsLoop(_, _, _)
FieldsLoop(T, i, fields) ==
  IF i > Len(T) THEN StructFields(fields, <<>>)
  ELSE IF ParseTag(T[i].Name, T[i].Options) # <<>>
  THEN StructFields(<<>>, ParseTag(T[i].Name, T[i].Options))
  ELSE IF TagOpts(T[i].Options).Position \in DOMAIN fields
  THEN StructFields(<<>>, NewValidationError(T[i].Name, "duplicate position"))
  ELSE FieldsLoop(T, i + 1, (TagOpts(T[i].Options).Position :> FieldInfo(T, i)) @@ fields)

GetStructFields(T) == FieldsLoop(T, 1, <<>>)

GetMaxPosition(fields) ==
  IF DOMAIN fields = {} THEN 0
  ELSE CHOOSE m \in DOMAIN fields : \A pos \in DOMAIN fields : pos <= m

GetSortedPositions(fields) ==
  SelectSeq([i \in 1..GetMaxPosition(fields) |-> i], LAMBDA i : i \in DOMAIN fields)

\* what Marshal returns
Marshalled(text, err) == [text |-> text, err |-> err]

\* whether Marshal leaves the field at a position out
Omitted(fields, r, pos) ==
  /\ fields[pos].Options.OmitEmpty
  /\ IsZeroValue(fields[pos].Type, r[fields[pos].Index])

\* the inner loop of Marshal: the placeholders for the positions from..to-1
RECURSIVE GapValues(_, _, _, _)
GapValues(fields, r, from, to) ==
  IF from >= to THEN <<>>
  ELSE IF from \in DOMAIN fields /\ Omitted(fields, r, from)
  THEN GapValues(fields, r, from + 1, to)
  ELSE <<EmptyQuoted>> \o GapValues(fields, r, from + 1, to)

\* the loop of Marshal over the sorted positions
RECURSIVE MarshalLoop(_, _, _, _, _)
MarshalLoop(fields, r, positions, lastIncludedPos, values) ==
  IF positions = <<>> THEN Marshalled(BuildRowLiteral(values), <<>>)
  ELSE IF Omitted(fields, r, Head(positions))
  THEN MarshalLoop(fields, r, Tail(positions), lastIncludedPos, values)
  ELSE MarshalLoop(fields, r, Tail(positions), Head(positions),
                   values \o GapValues(fields, r, lastIncludedPos + 1, Head(positions))
                          \o <<FormatValue(fields[Head(positions)].Type,
                                           r[fields[Head(positions)].Index])>>)

MarshalFields(g, r) ==
  IF g.err # <<>> THEN Marshalled(<<>>, g.err)
  ELSE IF DOMAIN g.fields = {} THEN Marshalled(<<"(", ")">>, <<>>)
  ELSE MarshalLoop(g.fields, r, GetSortedPositions(g.fields), 0, <<>>)

Marshal(T, r) == MarshalFields(GetStructFields(T), r)

\* what Unmarshal returns, with the struct as it leaves it
Unmarshalled(v, err) == [val |-> v, err |-> err]

\* the end of Unmarshal: the first missing required field the map yields
CheckRequired(fields, v, missing, reqOrder) ==
  IF missing = {} THEN Unmarshalled(v, <<>>)
  ELSE Unmarshalled(v, NewValidationError(
                         fields[SelectSeq(reqOrder, LAMBDA pos : pos \in missing)[1]].Name,
                         "required field is missing"))

RECURSIVE DefaultsLoop(_, _, _, _, _, _)

\* a default converted for a field beyond the tokens
DefaultSet(n, fields, v, order, missing, reqOrder, c) ==
  IF c.err # <<>> THEN Unmarshalled(v, c.err)
  ELSE DefaultsLoop(n, fields, [v EXCEPT ![fields[Head(order)].Index] = c.val],
                    Tail(order), missing \ {Head(order)}, reqOrder)

\* the second loop of Unmarshal, over the fields in the order the map yields
DefaultsLoop(n, fields, v, order, missing, reqOrder) ==
  IF order = <<>> THEN CheckRequired(fields, v, missing, reqOrder)
  ELSE IF Head(order) > n /\ fields[Head(order)].Options.HasDefault
  THEN DefaultSet(n, fields, v, order, missing, reqOrder,
                  ConvertToType(fields[Head(order)].Options.Default, fields[Head(order)].Type))
  ELSE DefaultsLoop(n, fields, v, Tail(order), missing, reqOrder)

RECURSIVE AssignLoop(_, _, _, _, _, _)

\* a token converted for the field at its position
TokenSet(tokens, fields, v, i, missing, orders, c) ==
  IF c.err # <<>> THEN Unmarshalled(v, c.err)
  ELSE AssignLoop(tokens, fields, [v EXCEPT ![fields[i].Index] = c.val], i + 1,
                  missing, orders)

\* the default taken whenever the field carries one
ValueStrDefaultFirst(token, options) ==
  IF options.HasDefault THEN options.Default ELSE token.Value

\* the text Unmarshal converts for a token
ValueStr(token, options) ==
  IF token.Value = <<>> /\ options.HasDefault THEN options.Default ELSE token.Value

\* the first loop of Unmarshal, over the tokens
AssignLoop(tokens, fields, v, i, missing, orders) ==
  IF i > Len(tokens)
  THEN DefaultsLoop(Len(tokens), fields, v, orders.fields, missing, orders.required)
  ELSE IF i \notin DOMAIN fields
  THEN AssignLoop(tokens, fields, v, i + 1, missing, orders)
  ELSE TokenSet(tokens, fields, v, i, missing \ {i}, orders,
                ConvertToType(ValueStr(tokens[i], fields[i].Options), fields[i].Type))

UnmarshalTokens(p, g, v, orders) ==
  IF p.err # <<>> THEN Unmarshalled(v, p.err)
  ELSE IF g.err # <<>> THEN Unmarshalled(v, g.err)
  ELSE AssignLoop(p.tokens, g.fields, v, 1,
                  {pos \in DOMAIN g.fields : g.fields[pos].Options.Required}, orders)

\* Unmarshal into v; orders is the order in which the run iterates its maps:
\* the positions of the fields, and the required fields
Unmarshal(data, T, v, orders) ==
  UnmarshalTokens(ParseRowLiteral(data), GetStructFields(T), v, orders)

(***************************************************************************)
(* The codec applied: a list of strings escaped, built into a row literal  *)
(* and parsed back; a record marshalled and unmarshalled into a fresh      *)
(* record of its type.                                                     *)
(***************************************************************************)
\* the bytes strings are drawn from: the ones EscapeString rewrites, the
\* ones the parser gives a meaning to, and a letter an escape is named by
Chars == {Quote, Backslash, LF, CR, TAB, NUL, ",", " ", ")", "n"}

StringsOf(n) == UNION {[1..m -> Chars] : m \in 0..n}

\* the lists of k strings of at most n bytes together
RECURSIVE StringLists(_, _)
StringLists(k, n) ==
  IF k = 0 THEN {<<>>}
  ELSE UNION {{<<s>> \o l : l \in StringLists(k - 1, n - Len(s))} : s \in StringsOf(n)}

\* the strings and integers stored in record fields
StrVals == {<<>>, <<"a">>, <<"a", ",", Quote>>, NullLiteral}

IntVals == {0 - 1, 0, 12}

RECURSIVE ValuesOf(_)
ValuesOf(type) ==
  CASE type = "string" -> StrVals
    [] type = "int" -> IntVals
    [] type = "bool" -> BOOLEAN
    [] IsPtr(type) -> {<<>>} \cup {<<v>> : v \in ValuesOf(Elem(type))}
    [] IsNull(type) ->
         {ZeroOf(type)} \cup {NullOf(v, TRUE) : v \in ValuesOf(Elem(type))}

FieldNames == <<"A", "B", "C", "D">>

\* the struct types of n fields tagged 1..n, declared in that order or in
\* the opposite one
StructTypes(n) ==
  UNION {{[i \in 1..n |-> StructField(FieldNames[i], types[i], Plain(i))],
          [i \in 1..n |-> StructField(FieldNames[i], types[i], Plain(n + 1 - i))]} :
         types \in [1..n -> FieldTypes]}

\* the values of the first n fields of a struct type
RECURSIVE ValuesUpTo(_, _)
ValuesUpTo(T, n) ==
  IF n = 0 THEN {<<>>}
  ELSE UNION {{Append(r, v) : v \in ValuesOf(T[n].Type)} : r \in ValuesUpTo(T, n - 1)}

StructValues(T) == ValuesUpTo(T, Len(T))

ZeroStruct(T) == [i \in 1..Len(T) |-> ZeroOf(T[i].Type)]

Perms(S) ==
  {p \in [1..Cardinality(S) -> S] : \A i, j \in 1..Cardinality(S) : p[i] = p[j] => i = j}

\* the orders in which one run of Unmarshal can iterate its two maps; only
\* the fields with a default and the required fields are acted on
Orders(T) ==
  {[fields |-> f, required |-> q] :
     f \in Perms({T[i].Options.Position : i \in {j \in 1..Len(T) : T[j].Options.HasDefault}}),
     q \in Perms({T[i].Options.Position : i \in {j \in 1..Len(T) : T[j].Options.Required}})}

\* the tags `row:""`, `row:"0"`, `row:"1"`, `row:"2"`, `row:"3"` and
\* `row:"1,required,omitempty"`
LayoutTags ==
  {EmptyTag, Plain(0), Plain(1), Plain(2), Plain(3), TagOptions(1, TRUE, TRUE, FALSE, <<>>)}

\* the struct types of n string fields with these tags
LayoutTypes(n) ==
  {[i \in 1..n |-> StructField(FieldNames[i], "string", tags[i])] : tags \in [1..n -> LayoutTags]}

\* the bytes row literals are written from by hand
TextChars == {"a", " ", ",", Quote}

\* the row literal (a,"b)"c)
StrayQuoteText == <<"(", "a", ",", Quote, "b", ")", Quote, "c", ")">>

\* the row literals with at most n bytes between the parentheses, and the
\* literal with the stray quote
HandTexts(n) ==
  {<<"(">> \o body \o <<")">> : body \in UNION {[1..m -> TextChars] : m \in 0..n}}
    \cup {StrayQuoteText}

InitCodec ==
  /\ tpl = ""
  /\ table = <<>>
  /\ rec = <<>>
  /\ db = {}
  /\ seqval = 0
  /\ errorf = FALSE
  /\ live = {}
  /\ delOK = FALSE
  /\ \/ \E k \in 0..MaxStrings : \E l \in StringLists(k, MaxStrLen) :
          crec = [kind |-> "strings", list |-> l]
     \/ \E n \in 0..MaxFields : \E T \in StructTypes(n) : \E r \in StructValues(T) :
          crec = [kind |-> "record", T |-> T, r |-> r]
     \/ \E n \in 0..MaxFields : \E T \in LayoutTypes(n) :
          crec = [kind |-> "layout", T |-> T]
     \/ \E text \in HandTexts(MaxStrLen + 1) :
          crec = [kind |-> "text", text |-> text]
  /\ cout = [stage |-> "input"]

\* ParseRowLiteral on a row literal written by hand
ParseText ==
  /\ crec.kind = "text"
  /\ cout.stage = "input"
  /\ cout' = [stage |-> "parsed", res |-> ParseRowLiteral(crec.text)]
  /\ UNCHANGED <<crec, crudVars>>

\* GetStructFields on the struct type
GetLayout ==
  /\ crec.kind = "layout"
  /\ cout.stage = "input"
  /\ cout' = [stage |-> "layout", res |-> GetStructFields(crec.T)]
  /\ UNCHANGED <<crec, crudVars>>

\* EscapeString on every string, then BuildRowLiteral
EscapeAndBuild ==
  /\ crec.kind = "strings"
  /\ cout.stage = "input"
  /\ cout' = [stage |-> "literal",
              text |-> BuildRowLiteral([i \in 1..Len(crec.list) |-> EscapeString(crec.list[i])])]
  /\ UNCHANGED <<crec, crudVars>>

\* ParseRowLiteral on the literal built
Parse ==
  /\ crec.kind = "strings"
  /\ cout.stage = "literal"
  /\ cout' = [stage |-> "tokens", text |-> cout.text, res |-> ParseRowLiteral(cout.text)]
  /\ UNCHANGED <<crec, crudVars>>

\* Marshal on the record
MarshalRecord ==
  /\ crec.kind = "record"
  /\ cout.stage = "input"
  /\ cout' = [stage |-> "marshalled", res |-> Marshal(crec.T, crec.r)]
  /\ UNCHANGED <<crec, crudVars>>

\* Unmarshal of the marshalled text into a fresh record of the same type
UnmarshalRecord ==
  /\ crec.kind = "record"
  /\ cout.stage = "marshalled"
  /\ cout.res.err = <<>>
  /\ \E orders \in Orders(crec.T) :
       cout' = [stage |-> "unmarshalled", text |-> cout.res.text,
                res |-> Unmarshal(cout.res.text, crec.T, ZeroStruct(crec.T), orders)]
  /\ UNCHANGED <<crec, crudVars>>

NextCodec ==
  \/ EscapeAndBuild
  \/ Parse
  \/ MarshalRecord
  \/ UnmarshalRecord
  \/ GetLayout
  \/ ParseText

SpecCodec == InitCodec /\ [][NextCodec]_vars

(***************************************************************************)
(* The decoder applied: a row literal a caller supplies is unmarshalled    *)
(* into a fresh record of a tagged type, by Unmarshal and by               *)
(* UnmarshalStrict; a record of a type with sparse positions is marshalled *)
(* and unmarshalled back.                                                  *)
(***************************************************************************)
\* UnmarshalStrict: more tokens than the highest tagged position is an
\* error; otherwise Unmarshal
StrictTokens(p, g, data, T, v, orders) ==
  IF p.err # <<>> THEN Unmarshalled(v, p.err)
  ELSE IF g.err # <<>> THEN Unmarshalled(v, g.err)
  ELSE IF Len(p.tokens) > GetMaxPosition(g.fields)
  THEN Unmarshalled(v, NewValidationError(<<>>, "row has more values than struct has tagged fields"))
  ELSE Unmarshal(data, T, v, orders)

UnmarshalStrict(data, T, v, orders) ==
  StrictTokens(ParseRowLiteral(data), GetStructFields(T), data, T, v, orders)

\* the elements rows are written from: nothing, the quoted empty string and
\* a number
RowElements == {<<>>, EmptyQuoted, <<"1", "2">>}

\* the row literals of at most n elements
RowTexts(n) == {BuildRowLiteral(l) : l \in UNION {[1..k -> RowElements] : k \in 0..n}}

DefaultLiteral == <<"7">>

\* the tags `row:"<pos>"`, `row:"<pos>,required"` and `row:"<pos>,default=7"`
Tagged(tag, position) ==
  CASE tag = "required" -> TagOptions(position, FALSE, TRUE, FALSE, <<>>)
    [] tag = "default" -> TagOptions(position, FALSE, FALSE, TRUE, DefaultLiteral)
    [] OTHER -> Plain(position)

\* the positions of n fields: 1..n+1 without one position, in declaration
\* order or in the opposite one
Placements(n) ==
  UNION {{[i \in 1..n |-> IF i < gap THEN i ELSE i + 1],
          [i \in 1..n |-> IF n + 1 - i < gap THEN n + 1 - i ELSE n + 2 - i]} :
         gap \in 1..(n + 1)}

\* the struct types of n fields of the given types and tags
SparseTypes(n, types, tags) ==
  {[i \in 1..n |-> StructField(FieldNames[i], ty[i], Tagged(tg[i], pos[i]))] :
     ty \in [1..n -> types], tg \in [1..n -> tags], pos \in Placements(n)}

InitRow ==
  /\ tpl = ""
  /\ table = <<>>
  /\ rec = <<>>
  /\ db = {}
  /\ seqval = 0
  /\ errorf = FALSE
  /\ live = {}
  /\ delOK = FALSE
  /\ \/ \E n \in 0..MaxFields :
          \E T \in SparseTypes(n, {"string", "int"}, {"plain", "required", "default"}) :
            \E text \in RowTexts(MaxStrings) :
              crec = [kind |-> "row", T |-> T, text |-> text]
     \/ \E n \in 0..MaxFields :
          \E T \in SparseTypes(n, {"string", "*string"}, {"plain", "default"}) :
            \E r \in StructValues(T) :
              crec = [kind |-> "record", T |-> T, r |-> r]
  /\ cout = [stage |-> "input"]

\* Unmarshal of the row into a fresh record
UnmarshalRow ==
  /\ crec.kind = "row"
  /\ cout.stage = "input"
  /\ \E orders \in Orders(crec.T) :
       cout' = [stage |-> "unmarshalled", text |-> crec.text,
                res |-> Unmarshal(crec.text, crec.T, ZeroStruct(crec.T), orders)]
  /\ UNCHANGED <<crec, crudVars>>

\* UnmarshalStrict of the row into a fresh record
UnmarshalStrictRow ==
  /\ crec.kind = "row"
  /\ cout.stage = "input"
  /\ \E orders \in Orders(crec.T) :
       cout' = [stage |-> "strict", text |-> crec.text,
                res |-> UnmarshalStrict(crec.text, crec.T, ZeroStruct(crec.T), orders)]
  /\ UNCHANGED <<crec, crudVars>>

NextRow ==
  \/ UnmarshalRow
  \/ UnmarshalStrictRow
  \/ MarshalRecord
  \/ UnmarshalRecord

SpecRow == InitRow /\ [][NextRow]_vars

(***************************************************************************)
(* row_marshaler: slices (types.go).  A slice is the sequence of its       *)
(* elements; its type is written "[]" and the element type.                *)
(***************************************************************************)
SliceTypes == {"[]string", "[]int", "[]bool"}

SliceElem(type) ==
  CASE type = "[]string" -> "string"
    [] type = "[]int" -> "int"
    [] type = "[]bool" -> "bool"

\* the loop of splitSliceElements over the bytes from i on
RECURSIVE SplitLoop(_, _, _, _, _, _)
SplitLoop(content, i, elements, current, inQuote, escaped) ==
  IF i >= Len(content)
  THEN IF current # <<>> THEN Append(elements, current) ELSE elements
  ELSE IF escaped
  THEN SplitLoop(content, i + 1, elements, Append(current, At(content, i)), inQuote, FALSE)
  ELSE IF At(content, i) = Backslash
  THEN SplitLoop(content, i + 1, elements, Append(current, Backslash), inQuote, TRUE)
  ELSE IF At(content, i) = Quote
  THEN SplitLoop(content, i + 1, elements, Append(current, Quote), ~inQuote, FALSE)
  ELSE IF At(content, i) = "," /\ ~inQuote
  THEN SplitLoop(content, i + 1, Append(elements, current), <<>>, inQuote, FALSE)
  ELSE SplitLoop(content, i + 1, elements, Append(current, At(content, i)), inQuote, FALSE)

splitSliceElements(content) == SplitLoop(content, 0, <<>>, <<>>, FALSE, FALSE)

\* the loop of convertToSlice over the elements
RECURSIVE ElementsLoop(_, _, _, _)
ElementsLoop(elements, type, i, slice) ==
  IF i > Len(elements) THEN Converted(slice, <<>>)
  ELSE IF ConvertToType(TrimSpace(elements[i]), SliceElem(type)).err # <<>>
  THEN Converted(<<>>, ConvertToType(TrimSpace(elements[i]), SliceElem(type)).err)
  ELSE ElementsLoop(elements, type, i + 1,
                    Append(slice, ConvertToType(TrimSpace(elements[i]), SliceElem(type)).val))

\* convertToSlice on the trimmed value
convertToSliceTrimmed(value, type) ==
  IF \/ Len(value) < 2
     \/ value[1] \notin {"[", "{"}
     \/ value[Len(value)] \notin {"]", "}"}
  THEN Converted(<<>>, NewTypeMismatchError(type,
                         "slice must be in [val1,val2,...] or {val1,val2,...} format"))
  ELSE IF Len(value) = 2 THEN Converted(<<>>, <<>>)
  ELSE ElementsLoop(splitSliceElements(Slice(value, 1, Len(value) - 1)), type, 1, <<>>)

convertToSlice(value, type) ==
  IF value = <<>> THEN Converted(<<>>, <<>>)
  ELSE convertToSliceTrimmed(TrimSpace(value), type)

\* ConvertToType with its slice case
ConvertToTypeOrSlice(value, type) ==
  IF type \in SliceTypes THEN convertToSlice(value, type) ELSE ConvertToType(value, type)

\* the text of an array element as the PostgreSQL array formatter writes it:
\* a string in double quotes with a backslash before every quote and
\* backslash, a number in decimal, a boolean as t or f
RECURSIVE ArrayQuotedBytes(_)
ArrayQuotedBytes(s) ==
  IF s = <<>> THEN <<>>
  ELSE (IF Head(s) \in {Quote, Backslash} THEN <<Backslash, Head(s)>> ELSE <<Head(s)>>)
       \o ArrayQuotedBytes(Tail(s))

ArrayElement(elemType, e) ==
  CASE elemType = "string" -> <<Quote>> \o ArrayQuotedBytes(e) \o <<Quote>>
    [] elemType = "int" -> FormatInt(e)
    [] elemType = "bool" -> IF e THEN <<"t">> ELSE <<"f">>

\* pq.Array(v).Value() for a non-empty slice
pqArrayValue(type, s) ==
  <<"{">> \o Joined([i \in 1..Len(s) |-> ArrayElement(SliceElem(type), s[i])]) \o <<"}">>

\* strings.Trim(s, `"`)
RECURSIVE TrimQuotes(_)
TrimQuotes(s) ==
  IF s # <<>> /\ Head(s) = Quote THEN TrimQuotes(Tail(s))
  ELSE IF s # <<>> /\ s[Len(s)] = Quote THEN TrimQuotes(SubSeq(s, 1, Len(s) - 1))
  ELSE s

\* the element of the fall-back loop of formatSlice
SliceElement(elemType, e) ==
  IF elemType = "string" THEN TrimQuotes(FormatValue(elemType, e))
  ELSE FormatValue(elemType, e)

formatSliceFallback(type, s) ==
  <<"{">> \o Joined([i \in 1..Len(s) |-> SliceElement(SliceElem(type), s[i])]) \o <<"}">>

\* formatSlice; literal tells whether pq.Array(v).Value() returned a literal
formatSlice(type, s, literal) ==
  IF s = <<>> THEN <<"{", "}">>
  ELSE IF literal THEN EscapeString(pqArrayValue(type, s))
  ELSE formatSliceFallback(type, s)

\* a field's text read back as Unmarshal reads it: the text is the element
\* of a row, and the value of the row's first token is converted
ReadBack(text, type) ==
  IF ParseRowLiteral(BuildRowLiteral(<<text>>)).err # <<>>
  THEN Converted(<<>>, ParseRowLiteral(BuildRowLiteral(<<text>>)).err)
  ELSE IF ParseRowLiteral(BuildRowLiteral(<<text>>)).tokens = <<>>
  THEN ConvertToTypeOrSlice(<<>>, type)
  ELSE ConvertToTypeOrSlice(ParseRowLiteral(BuildRowLiteral(<<text>>)).tokens[1].Value, type)

\* the slices of at most n elements
SliceValues(type, n) == UNION {[1..k -> ValuesOf(SliceElem(type))] : k \in 0..n}

InitSlice ==
  /\ tpl = ""
  /\ table = <<>>
  /\ rec = <<>>
  /\ db = {}
  /\ seqval = 0
  /\ errorf = FALSE
  /\ live = {}
  /\ delOK = FALSE
  /\ \E type \in SliceTypes : \E s \in SliceValues(type, MaxStrings) :
       crec = [kind |-> "slice", type |-> type, s |-> s]
  /\ cout = [stage |-> "input"]

\* FormatValue on the slice
FormatSlice ==
  /\ cout.stage = "input"
  /\ \E literal \in BOOLEAN :
       cout' = [stage |-> "formatted", literal |-> literal,
                text |-> formatSlice(crec.type, crec.s, literal)]
  /\ UNCHANGED <<crec, crudVars>>

\* the text read back and converted to the slice type
ConvertSlice ==
  /\ cout.stage = "formatted"
  /\ cout' = [stage |-> "converted", literal |-> cout.literal, text |-> cout.text,
              res |-> ReadBack(cout.text, crec.type)]
  /\ UNCHANGED <<crec, crudVars>>

NextSlice ==
  \/ FormatSlice
  \/ ConvertSlice

SpecSlice == InitSlice /\ [][NextSlice]_vars

(***************************************************************************)
(* pgx.go: the generator.  The context holds the driver, the flags and the *)
(* esc list; Pre checks the driver and emits the db partial and the file   *)
(* headers.                                                                *)
(***************************************************************************)
ext == ".dbtpl.go"

\* singularize and strings.ToLower(camelExport(..)) on the names used
singularize(s) ==
  CASE s = "authors" -> "author"
    [] s = "book_tags" -> "book_tag"
    [] s = "codes" -> "code"
    [] OTHER -> s

lowerCamelExport(s) ==
  CASE s = "book_tag" -> "booktag"
    [] s = "book_tags" -> "booktags"
    [] s = "get_author" -> "getauthor"
    [] s = "AuthorSummary" -> "authorsummary"
    [] s = "author_summary" -> "authorsummary"
    [] OTHER -> s

\* strings.ToLower on the names used
toLower(s) ==
  CASE s = "Status" -> "status"
    [] s = "Kind" -> "kind"
    [] s = "GetAuthor" -> "getauthor"
    [] s = "Purge" -> "purge"
    [] s = "Author" -> "author"
    [] s = "BookTag" -> "booktag"
    [] s = "Recent" -> "recent"
    [] s = "Code" -> "code"
    [] s = "Authorsummary" -> "authorsummary"
    [] s = "AuthorSummary" -> "authorsummary"
    [] OTHER -> s

\* xo.Proc, xo.Table with the names of its indexes and foreign keys,
\* xo.Query
XoProc(name, type, definition) == [Name |-> name, Type |-> type, Definition |-> definition]

XoTable(name, indexes, fkeys) == [Name |-> name, Indexes |-> indexes, ForeignKeys |-> fkeys]

XoQuery(type, name, exec, flat) == [Type |-> type, Name |-> name, Exec |-> exec, Flat |-> flat]

\* xo.Set: one schema with its enums, procs, tables and views, and the
\* queries

Set(enums, procs, tables, views, queries) ==
  [Schemas |-> <<[Enums |-> enums, Procs |-> procs, Tables |-> tables, Views |-> views]>>,
   Queries |-> queries]

\* the procs whose name no earlier proc has
FirstByName(procs) ==
  SelectSeq(procs, LAMBDA p :
    \E j \in 1..Len(procs) : procs[j] = p /\ \A k \in 1..(j - 1) : procs[k].Name # p.Name)

ProcFile(p) ==
  (IF p.Type = "function" THEN "sf_" ELSE "sp_") \o lowerCamelExport(p.Name) \o ext

\* the file names of the procs: one per name, at its first occurrence
ProcFiles(procs) == [i \in 1..Len(FirstByName(procs)) |-> ProcFile(FirstByName(procs)[i])]

SchemaFiles(schema) ==
  [i \in 1..Len(schema.Enums) |-> lowerCamelExport(schema.Enums[i]) \o ext]
  \o ProcFiles(schema.Procs)
  \o [i \in 1..Len(schema.Tables \o schema.Views) |->
        lowerCamelExport(singularize((schema.Tables \o schema.Views)[i].Name)) \o ext]

RECURSIVE SchemasFiles(_)
SchemasFiles(schemas) ==
  IF schemas = <<>> THEN <<>> ELSE SchemaFiles(Head(schemas)) \o SchemasFiles(Tail(schemas))

fileNames(mode, set) ==
  CASE mode = "schema" -> SchemasFiles(set.Schemas)
    [] mode = "query" -> [i \in 1..Len(set.Queries) |-> lowerCamelExport(set.Queries[i].Type) \o ext]
    [] OTHER -> <<>>

\* xo.Template
Template(partial, dest) == [Partial |-> partial, Dest |-> dest]

\* what Pre returns, with the emit calls it made
Emitted(err, emits) == [err |-> err, emits |-> emits]

\* the error of Pre for a driver that is not postgres
ErrDriver(driver) == <<"pgx template only supports postgres driver, got", driver>>

\* Pre without the check of the driver
PreAnyDriver(ctx, added) ==
  IF added # <<>> THEN Emitted(added, <<>>)
  ELSE Emitted(<<>>,
         (IF ~ctx.notFirst /\ ~ctx.append
          THEN <<Template("db", "dbtpl.dbtpl.go")>>
               \o (IF ctx.single = "" THEN <<Template("header", "dbtpl.dbtpl.go")>> ELSE <<>>)
          ELSE <<>>)
         \o [i \in 1..Len(fileNames(ctx.mode, ctx.set)) |->
               Template("header", fileNames(ctx.mode, ctx.set)[i])])

\* Init.Pre; added is the error of addInitialisms
Pre(ctx, added) ==
  IF added # <<>> THEN Emitted(added, <<>>)
  ELSE IF ctx.driver # "postgres" THEN Emitted(ErrDriver(ctx.driver), <<>>)
  ELSE Emitted(<<>>,
         (IF ~ctx.notFirst /\ ~ctx.append
          THEN <<Template("db", "dbtpl.dbtpl.go")>>
               \o (IF ctx.single = "" THEN <<Template("header", "dbtpl.dbtpl.go")>> ELSE <<>>)
          ELSE <<>>)
         \o [i \in 1..Len(fileNames(ctx.mode, ctx.set)) |->
               Template("header", fileNames(ctx.mode, ctx.set)[i])])

\* the statements the templates get from sqlstr for a table
Statements(t) ==
  <<sqlstr_insert(t), sqlstr_update(t), sqlstr_upsert(t), sqlstr_delete(t),
    sqlstr_index(t, t.PrimaryKeys)>>

\* snaker.ForceCamelIdentifier on the names used: the name is lowered, then
\* each word is capitalised
camelExport(s) ==
  CASE s = "status" -> "Status"
    [] s = "kind" -> "Kind"
    [] s = "get_author" -> "GetAuthor"
    [] s = "purge" -> "Purge"
    [] s = "author" -> "Author"
    [] s = "book_tag" -> "BookTag"
    [] s = "recent" -> "Recent"
    [] s = "code" -> "Code"
    [] s = "AuthorSummary" -> "Authorsummary"
    [] s = "author_summary" -> "AuthorSummary"
    [] OTHER -> s

\* an emit call of the Process phase: the template, its file and its data
Emit(partial, dest, data) == [Partial |-> partial, Dest |-> dest, Data |-> data]

\* the enums of a schema
emitEnums(enums) ==
  [i \in 1..Len(enums) |-> Emit("enum", toLower(camelExport(enums[i])) \o ext, enums[i])]

\* the Proc that convertProc builds
GoProc(proc) ==
  [Type |-> proc.Type, GoName |-> camelExport(proc.Name), SQLName |-> proc.Name,
   Signature |-> proc.Definition, Overloaded |-> FALSE]

\* the maps of convertProc before the first proc
NoProcs == [overloadMap |-> [n \in {} |-> <<>>], procOrder |-> <<>>]

\* convertProc that appends every proc's name to procOrder
convertProcEvery(conv, proc) ==
  LET name == camelExport(proc.Name)
  IN [overloadMap |->
        [n \in DOMAIN conv.overloadMap \cup {name} |->
           (IF n \in DOMAIN conv.overloadMap THEN conv.overloadMap[n] ELSE <<>>)
           \o (IF n = name THEN <<GoProc(proc)>> ELSE <<>>)],
      procOrder |-> Append(conv.procOrder, name)]

\* convertProc: the proc joins the group of its name; a new name is
\* appended to procOrder.  The conversions of the fields return no error.
convertProc(conv, proc) ==
  LET name == camelExport(proc.Name)
  IN [overloadMap |->
        [n \in DOMAIN conv.overloadMap \cup {name} |->
           (IF n \in DOMAIN conv.overloadMap THEN conv.overloadMap[n] ELSE <<>>)
           \o (IF n = name THEN <<GoProc(proc)>> ELSE <<>>)],
      procOrder |->
        IF name \in DOMAIN conv.overloadMap THEN conv.procOrder
        ELSE Append(conv.procOrder, name)]

RECURSIVE convertProcs(_, _)
convertProcs(conv, procs) ==
  IF procs = <<>> THEN conv ELSE convertProcs(convertProc(conv, Head(procs)), Tail(procs))

\* one procs template per name of procOrder
emitProcs(conv) ==
  [i \in 1..Len(conv.procOrder) |->
     LET name == conv.procOrder[i]
         procs == conv.overloadMap[name]
         prefix == IF procs[1].Type = "function" THEN "sf_" ELSE "sp_"
     IN Emit("procs", prefix \o toLower(name) \o ext,
             [j \in 1..Len(procs) |-> [procs[j] EXCEPT !.Overloaded = Len(procs) > 1]])]

\* a table or view: its typedef, its indexes, its foreign keys
emitTable(t) ==
  LET dest == toLower(camelExport(singularize(t.Name))) \o ext
  IN <<Emit("typedef", dest, t.Name)>>
     \o [i \in 1..Len(t.Indexes) |-> Emit("index", dest, t.Indexes[i])]
     \o [i \in 1..Len(t.ForeignKeys) |-> Emit("foreignkey", dest, t.ForeignKeys[i])]

RECURSIVE emitTables(_)
emitTables(tables) ==
  IF tables = <<>> THEN <<>> ELSE emitTable(Head(tables)) \o emitTables(Tail(tables))

\* emitSchema with the tables and views ahead of the procs
emitSchemaTablesFirst(schema) ==
  emitEnums(schema.Enums)
  \o emitTables(schema.Tables \o schema.Views)
  \o emitProcs(convertProcs(NoProcs, schema.Procs))

emitSchema(schema) ==
  emitEnums(schema.Enums)
  \o emitProcs(convertProcs(NoProcs, schema.Procs))
  \o emitTables(schema.Tables \o schema.Views)

\* emitQuery: the type of the query is built unless the query is Exec
emitQuery(query) ==
  LET GoName == IF query.Exec THEN "" ELSE query.Type
      dest == toLower(GoName) \o ext
  IN (IF ~query.Flat /\ ~query.Exec THEN <<Emit("typedef", dest, query.Name)>> ELSE <<>>)
     \o <<Emit("query", dest, query.Name)>>

RECURSIVE emitSchemas(_)
emitSchemas(schemas) ==
  IF schemas = <<>> THEN <<>> ELSE emitSchema(Head(schemas)) \o emitSchemas(Tail(schemas))

RECURSIVE emitQueries(_)
emitQueries(queries) ==
  IF queries = <<>> THEN <<>> ELSE emitQuery(Head(queries)) \o emitQueries(Tail(queries))

\* Init.Process
Process(mode, set) ==
  CASE mode = "schema" -> emitSchemas(set.Schemas)
    [] mode = "query" -> emitQueries(set.Queries)
    [] OTHER -> <<>>

\* imports.Process and format.Source on the contents used: a source that
\* parses comes back formatted, one that does not is refused
importsProcess(content) ==
  CASE content = "package a" -> [buf |-> "package a", err |-> <<>>]
    [] content = "package  a" -> [buf |-> "package  a", err |-> <<>>]
    [] OTHER -> [buf |-> "", err |-> <<"expected 'package'">>]

formatSource(buf) ==
  CASE buf = "package a" -> [buf |-> "package a\n", err |-> <<>>]
    [] buf = "package  a" -> [buf |-> "package a\n", err |-> <<>>]
    [] OTHER -> [buf |-> "", err |-> <<"expected 'package'">>]

\* the orders in which a range over the map files can visit its keys
RangeOrders(files) ==
  {o \in [1..Cardinality(DOMAIN files) -> DOMAIN files] :
     \A i, j \in 1..Cardinality(DOMAIN files) : i # j => o[i] # o[j]}

\* Init.Post, its range over files visiting the keys in the given order
RECURSIVE Post(_, _)
Post(files, order) ==
  IF order = <<>> THEN Emitted(<<>>, <<>>)
  ELSE LET file == Head(order)
           imported == importsProcess(files[file])
           formatted == formatSource(imported.buf)
       IN IF imported.err # <<>>
          THEN Emitted(<<"unable to goimports", file>> \o imported.err, <<>>)
          ELSE IF formatted.err # <<>>
          THEN Emitted(<<"unable to gofumpt", file>> \o formatted.err, <<>>)
          ELSE LET rest == Post(files, Tail(order))
               IN Emitted(rest.err, <<<<file, formatted.buf>>>> \o rest.emits)

Drivers == {"postgres", "mysql"}

SchemaNames == {"", "public"}

EscModes == {"schema", "table", "column"}

Sets ==
  {Set(<<"status", "kind">>,
       <<XoProc("get_author", "function", "(int)"), XoProc("purge", "procedure", "()"),
         XoProc("get_author", "function", "(text)")>>,
       <<XoTable("authors", <<"authors_pkey", "authors_name_idx">>, <<>>),
         XoTable("book_tags", <<"book_tags_pkey">>, <<"book_tags_book_fkey", "book_tags_tag_fkey">>)>>,
       <<XoTable("recent", <<>>, <<>>)>>,
       <<XoQuery("AuthorSummary", "", FALSE, FALSE), XoQuery("AuthorSummary", "Touch", TRUE, FALSE)>>),
   Set(<<>>, <<XoProc("purge", "procedure", "()")>>,
       <<XoTable("codes", <<"codes_pkey">>, <<>>)>>, <<>>,
       <<XoQuery("author_summary", "", FALSE, TRUE), XoQuery("", "Ping", TRUE, FALSE)>>)}

PostFiles == {"author.dbtpl.go", "code.dbtpl.go", "dbtpl.dbtpl.go"}

Contents == {"package a", "package  a", "func"}

\* the maps of output files handed to Post
FileMaps == UNION {[present -> Contents] : present \in SUBSET PostFiles}

InitGen ==
  /\ tpl = ""
  /\ table = <<>>
  /\ rec = <<>>
  /\ db = {}
  /\ seqval = 0
  /\ errorf = FALSE
  /\ live = {}
  /\ delOK = FALSE
  /\ \/ \E files \in FileMaps : crec = [kind |-> "files", files |-> files]
     \/ \E driver \in Drivers, schema \in SchemaNames, esc \in SUBSET EscModes \cup {{"all"}},
        mode \in {"schema", "query"}, notFirst \in BOOLEAN, append \in BOOLEAN,
        single \in {"", "out.go"}, set \in Sets, t \in Tables :
       crec = [kind |-> "generator",
               ctx |-> [driver |-> driver, schema |-> schema, esc |-> esc, mode |-> mode,
                        notFirst |-> notFirst, append |-> append, single |-> single,
                        set |-> set],
               table |-> t]
  /\ cout = [stage |-> "input"]

\* the Pre phase; addInitialisms accepts the configured initialisms or not
RunPre ==
  /\ crec.kind = "generator"
  /\ cout.stage = "input"
  /\ \E added \in {<<>>, <<"invalid initialism">>} :
       cout' = [stage |-> "pre", added |-> added, res |-> Pre(crec.ctx, added)]
  /\ UNCHANGED <<crec, crudVars>>

\* after Pre, the templates ask sqlstr for the statements of a table
BuildStatements ==
  /\ crec.kind = "generator"
  /\ cout.stage = "pre"
  /\ cout.res.err = <<>>
  /\ cout' = [stage |-> "statements", stmts |-> Statements(crec.table)]
  /\ UNCHANGED <<crec, crudVars>>

\* the Process phase, after a Pre phase without error
RunProcess ==
  /\ crec.kind = "generator"
  /\ cout.stage = "pre"
  /\ cout.res.err = <<>>
  /\ cout' = [stage |-> "process", emits |-> Process(crec.ctx.mode, crec.ctx.set)]
  /\ UNCHANGED <<crec, crudVars>>

\* the Post phase over a map of output files; the range over the map
\* visits the files in an order the run picks
RunPost ==
  /\ crec.kind = "files"
  /\ cout.stage = "input"
  /\ \E order \in RangeOrders(crec.files) :
       cout' = [stage |-> "post", order |-> order, res |-> Post(crec.files, order)]
  /\ UNCHANGED <<crec, crudVars>>

NextGen ==
  \/ RunPre
  \/ BuildStatements
  \/ RunProcess
  \/ RunPost

SpecGen == InitGen /\ [][NextGen]_vars

(***************************************************************************)
(* Properties of the generated record code.  The outcome of an operation   *)
(* is that of the call made in the current state.                          *)
(***************************************************************************)
Ops == {"Insert", "Update", "Save", "Upsert", "Delete"}

NonPK(t) == SelectSeq(t.Fields, LAMBDA f : ~f.IsPrimary)

NonSeq(t) == SelectSeq(t.Fields, LAMBDA f : ~f.IsSequence)

\* the lookup of a key in the table d
FindIn(d, key) == IndexLookup(table, key, d, seqval, errorf, FALSE)

\* o made no driver call, returned e (wrapped unless nil), and left the
\* flags and the table as they were
Refused(o, e) ==
  /\ o.calls = <<>>
  /\ o.raw = e
  /\ IF e = NoError THEN o.err = NoError ELSE Unwrap(o.err) = e
  /\ o.rec.exists = rec.exists
  /\ o.rec.deleted = rec.deleted
  /\ o.db = db

\* C3: each forbidden transition is rejected without any SQL statement and
\* without a change of _exists/_deleted: Insert on a record that exists
\* returns ErrInsertFailed{ErrAlreadyExists}, Update on a record that does
\* not exist returns ErrUpdateFailed{ErrDoesNotExist}, Delete on a record
\* that does not exist returns nil.
C3_ForbiddenRejected ==
  /\ rec.exists => Refused(Run("Insert", FALSE), ErrInsertFailed("ErrAlreadyExists"))
  /\ (~rec.exists /\ Emits("Update"))
       => Refused(Run("Update", FALSE), ErrUpdateFailed("ErrDoesNotExist"))
  /\ ~rec.exists => Refused(Run("Delete", FALSE), NoError)

\* a stored record whose second Insert is refused
C3_Witness ==
  /\ rec.exists
  /\ \E x \in db : Key(table, x) = RecKey(table, rec)
  /\ Run("Insert", FALSE).calls = <<>>
  /\ Unwrap(Run("Insert", FALSE).err) = ErrInsertFailed("ErrAlreadyExists")

\* o is the outcome of exactly the operation op, which is u
Dispatched(o, op, u) ==
  /\ o = u
  /\ o.ran = <<op>>
  /\ Len(o.calls) <= 1

\* C4: Save performs exactly Update when _exists is true and exactly Insert
\* otherwise, and returns that operation's result.
C4_SaveDispatch ==
  Emits("Save") =>
    IF rec.exists
    THEN Dispatched(Run("Save", FALSE), "Update", Run("Update", FALSE))
    ELSE Dispatched(Run("Save", FALSE), "Insert", Run("Insert", FALSE))

\* Save on a stored record changes its row by one UPDATE statement
C4_Witness ==
  /\ Emits("Save")
  /\ rec.exists
  /\ Run("Save", FALSE).err = NoError
  /\ Len(Run("Save", FALSE).calls) = 1
  /\ Run("Save", FALSE).calls[1].stmt.kind = "update"
  /\ Run("Save", FALSE).db # db

\* C5: once Delete has succeeded on a record, no Insert, Update, Upsert,
\* Save or Delete on it issues an SQL statement, and the record never again
\* reports Exists() true with Deleted() false.
C5_DeletedTerminal ==
  delOK =>
    /\ ~(Exists(rec) /\ ~Deleted(rec))
    /\ \A op \in Ops : Emits(op) => Run(op, FALSE).calls = <<>>

\* the record the lookup of r's key in d returns holds r's values in the
\* fields named by exprs and in the key, and is marked as existing
ReadsBack(l, r, exprs) ==
  /\ l.found
  /\ l.rec[1].exists
  /\ RecKey(table, l.rec[1]) = RecKey(table, r)
  /\ \A i \in 1..Len(exprs) : l.rec[1].vals[exprs[i].name] = r.vals[exprs[i].name]

\* after an Insert that succeeded the lookup of the record's key returns
\* the inserted values
AfterInsert(o) ==
  Succeeded(o) => ReadsBack(FindIn(o.db, RecKey(table, o.rec)), o.rec, o.calls[1].exprs)

\* the lookup l misses with the no-rows error
Misses(l) == ~l.found /\ l.rec = <<>> /\ ErrorsIs(l.err, ErrNoRows)

\* after a Delete that succeeded the lookup of the record's key misses
AfterDelete(o) ==
  Succeeded(o) => Misses(FindIn(o.db, RecKey(table, rec)))

\* C6: with no other writers the primary-key lookup returns a row for a key
\* exactly after an Insert of that key succeeded and before a Delete of it
\* succeeded; after Insert it returns the inserted values with _exists set,
\* after Delete it fails with the no-rows error.
C6_LookupInterval ==
  /\ \A key \in KeyVals(table) : FindIn(db, key).found <=> key \in live
  /\ \A key \in KeyVals(table) : FindIn(db, key).found \/ Misses(FindIn(db, key))
  /\ AfterInsert(Run("Insert", FALSE))
  /\ AfterDelete(Run("Delete", FALSE))

\* the UPDATE statement and arguments of the call c for the record r: SET
\* gives $1..$m to the non-key columns in declared order, WHERE gives
\* $m+1.. to the primary keys, and argument i is the field of the column
\* that carries $i
UpdateShape(t, r, c) ==
  /\ c.mode = "Exec"
  /\ c.stmt.kind = "update"
  /\ c.stmt.sets = [i \in 1..Len(NonPK(t)) |-> SetItem(NonPK(t)[i].SQLName, i, "")]
  /\ c.stmt.where = [j \in 1..Len(t.PrimaryKeys) |->
                       Cond(t.PrimaryKeys[j].SQLName, Len(NonPK(t)) + j)]
  /\ c.args = [i \in 1..Len(t.Fields) |->
                 IF i <= Len(NonPK(t))
                 THEN r.vals[NonPK(t)[i].GoName]
                 ELSE r.vals[t.PrimaryKeys[i - Len(NonPK(t))].GoName]]

\* a successful Update leaves every row with another key as it was, and the
\* row with the record's key holds, and is looked up with, the record's
\* non-key values
UpdateEffect(o) ==
  o.err = NoError =>
    /\ {x \in o.db : Key(table, x) # RecKey(table, rec)}
         = {x \in db : Key(table, x) # RecKey(table, rec)}
    /\ Cardinality(o.db) = Cardinality(db)
    /\ \A x \in o.db : Key(table, x) = RecKey(table, rec) =>
         /\ \A i \in 1..Len(NonPK(table)) :
              x[NonPK(table)[i].SQLName] = rec.vals[NonPK(table)[i].GoName]
         /\ ReadsBack(FindIn(o.db, RecKey(table, rec)), rec, names("", NonPK(table)))

\* the Update of a stored record made one call, of the shape and effect above
UpdatesRow(o) ==
  /\ Len(o.calls) = 1
  /\ UpdateShape(table, rec, o.calls[1])
  /\ UpdateEffect(o)

InsertShape(t, c, fields) ==
  /\ c.stmt.kind = "insert"
  /\ c.stmt.cols = [i \in 1..Len(fields) |-> fields[i].SQLName]
  /\ c.stmt.vals = [i \in 1..Len(fields) |-> i]
  /\ c.exprs = [i \in 1..Len(fields) |-> [prefix |-> "r.", name |-> fields[i].GoName]]
  /\ (c.stmt.returning # <<>>) <=> hasSequence(t)
  /\ hasSequence(t) => c.stmt.returning = <<seqField(t).SQLName>>

\* the Insert outcome o made no call or one of the shape above
InsertsFields(o, fields) ==
  o.calls # <<>> => (Len(o.calls) = 1 /\ InsertShape(table, o.calls[1], fields))

\* the non-sequence fields without the defaulted ones whose field is nil
Supplied(t, r) ==
  SelectSeq(NonSeq(t), LAMBDA f : has_default(f) => r.vals[f.GoName] # Nil)

ScansReturning(o) ==
  o.calls # <<>> =>
    /\ Len(o.calls[1].dests) = Len(o.calls[1].stmt.returning)
    /\ ~hasSequence(table) =>
         /\ o.calls[1].mode = "Exec"
         /\ o.raw \in {NoError, ErrConstraint}
         /\ o.raw = NoError => o.rec.exists

\* C10: the number of destinations the generated Insert scans equals the
\* number of RETURNING columns; on a table with no sequence column Insert
\* executes the statement without reading a returned column, succeeds and
\* sets _exists.
C10_ScanMatchesReturning ==
  Len(table.PrimaryKeys) >= 1 => ScansReturning(Run("Insert", FALSE))

\* the error o returns is its error passed through logerror: nil for nil,
\* else the Error wrapper that unwraps to it, with the sink called once iff
\* one is set
Wrapped(o) ==
  IF o.raw = NoError
  THEN o.err = NoError /\ o.logged = 0
  ELSE /\ o.err # NoError
       /\ o.err[1] = "Error"
       /\ Unwrap(o.err) = o.raw
       /\ ErrorsIs(o.err, o.raw)
       /\ o.logged = (IF errorf THEN 1 ELSE 0)

\* the lookup l of a key that matches no row returns no record and the
\* no-rows error
MissReported(l, key, fail) ==
  (~fail /\ \A x \in db : Key(table, x) # key) => Misses(l)

\* the lookup l went through logerror and reports a miss as such
LookupReported(l, key, fail) == Wrapped(l) /\ MissReported(l, key, fail)

Contiguous(T) ==
  /\ {T[i].Options.Position : i \in 1..Len(T)} = 1..Len(T)
  /\ \A i \in 1..Len(T) : ~T[i].Options.OmitEmpty

\* C1: a record whose tagged fields occupy the positions 1..n without a gap,
\* none of them omitempty, marshalled and then unmarshalled into a fresh
\* record of its type, comes back without an error and equal to the record.
C1_RoundTrip ==
  (crec.kind = "record" /\ cout.stage = "unmarshalled" /\ Contiguous(crec.T)) =>
    /\ cout.res.err = <<>>
    /\ cout.res.val = crec.r

\* the tokens are the strings, each of them quoted
TokensAre(tokens, list) ==
  /\ Len(tokens) = Len(list)
  /\ \A i \in 1..Len(list) : tokens[i].Quoted /\ tokens[i].Value = list[i]

\* C2: parsing the row literal built from the escaped strings s1..sk (k >= 1)
\* gives, without an error, exactly k tokens, the i-th quoted and of value
\* si, whatever quotes, backslashes, line feeds, carriage returns, tabs and
\* NUL bytes the strings hold.
C2_EscapeBuildParse ==
  (crec.kind = "strings" /\ Len(crec.list) >= 1 /\ cout.stage = "tokens") =>
    /\ cout.res.err = <<>>
    /\ TokensAre(cout.res.tokens, crec.list)

\* two strings, a quote and a backslash, have come back as two tokens
C2_Witness ==
  /\ crec.kind = "strings"
  /\ cout.stage = "tokens"
  /\ crec.list = <<(<<Quote>>), (<<Backslash>>)>>
  /\ cout.text = <<"(", Quote, Backslash, Quote, Quote, ",", Quote, Backslash, Backslash, Quote, ")">>
  /\ cout.res.err = <<>>
  /\ TokensAre(cout.res.tokens, crec.list)

\* the upsert statement of the call c: the insert over all columns, the
\* primary keys as conflict target, DO UPDATE SET c = EXCLUDED.c for the
\* non-primary columns, RETURNING the sequence column iff there is one
UpsertShape(t, c) ==
  /\ c.stmt.kind = "upsert"
  /\ c.stmt.cols = [i \in 1..Len(t.Fields) |-> t.Fields[i].SQLName]
  /\ c.stmt.conflict = [i \in 1..Len(t.PrimaryKeys) |-> t.PrimaryKeys[i].SQLName]
  /\ c.stmt.do = "DO UPDATE SET "
  /\ c.stmt.sets = [i \in 1..Len(NonPK(t)) |->
                      SetItem(NonPK(t)[i].SQLName, 0, NonPK(t)[i].SQLName)]
  /\ c.stmt.returning = (IF hasSequence(t) THEN <<seqField(t).SQLName>> ELSE <<>>)

\* the Upsert outcome o made no call or one with the statement above
UpsertsAll(o) == o.calls # <<>> => UpsertShape(table, o.calls[1])

\* C11: the generated upsert statement is the insert over all columns, the
\* sequence column included, then ON CONFLICT on the primary keys in
\* declared order, then DO UPDATE SET c = EXCLUDED.c for every non-primary
\* column in declared order, then RETURNING the sequence column iff the
\* table has one.
C11_UpsertStatement ==
  Emits("Upsert") => UpsertsAll(Run("Upsert", FALSE))

\* the call c of Delete on the record r: DELETE .. WHERE p1 = $1 AND ..
\* over the primary keys in declared order, passing the receiver's
\* primary-key fields in the same order
DeleteShape(t, r, c) ==
  /\ c.stmt.kind = "delete"
  /\ c.stmt.where = [i \in 1..Len(t.PrimaryKeys) |-> Cond(t.PrimaryKeys[i].SQLName, i)]
  /\ c.exprs = [i \in 1..Len(t.PrimaryKeys) |->
                  [prefix |-> "r.", name |-> t.PrimaryKeys[i].GoName]]
  /\ c.args = [i \in 1..Len(t.PrimaryKeys) |-> r.vals[t.PrimaryKeys[i].GoName]]

\* the Delete outcome o made no call or the one above
DeletesByKey(o) == o.calls # <<>> => DeleteShape(table, rec, o.calls[1])

\* C12: the generated Delete compares the primary-key columns in declared
\* order with $1..$|P| joined by AND, and passes the receiver record's
\* primary-key fields in the same order as the arguments.
C12_DeleteByPrimaryKey ==
  Emits("Delete") => DeletesByKey(Run("Delete", FALSE))

\* the table's column list equals its primary-key list
AllPrimary(t) == Len(t.Fields) = Len(t.PrimaryKeys)

\* C13: for a table whose column list equals its primary-key list the
\* emitted code has the record type and the index lookups but no Update; for
\* a table with a primary key and a column outside it, Update is emitted.
C13_UpdateOmittedForAllKeys ==
  /\ AllPrimary(table) =>
       (~Emits("Update") /\ IndexLookup(table, RecKey(table, rec), db, seqval, errorf, FALSE).ran = <<"Lookup">>)
  /\ (Len(table.PrimaryKeys) >= 1 /\ ~AllPrimary(table)) => Emits("Update")

\* the tokens of the row supplied
RowTokens == ParseRowLiteral(crec.text).tokens

\* the required fields of T that a row of n tokens does not reach
MissingRequired(T, n) ==
  {i \in 1..Len(T) : T[i].Options.Required /\ T[i].Options.Position > n}

\* the one of them with the lowest position
FirstMissing(T, n) ==
  CHOOSE i \in MissingRequired(T, n) :
    \A j \in MissingRequired(T, n) : T[i].Options.Position <= T[j].Options.Position

\* Unmarshal has run on a row that parses
Decoded ==
  /\ crec.kind = "row"
  /\ cout.stage = "unmarshalled"
  /\ ParseRowLiteral(crec.text).err = <<>>

\* C14: Unmarshal of a row with fewer tokens than the position of a required
\* field fails with a ValidationError naming the unsatisfied required field
\* of the lowest position, whatever the run (a token that does not convert
\* is reported before that).
C14_FirstRequiredNamed ==
  (Decoded /\ MissingRequired(crec.T, Len(RowTokens)) # {}) =>
     \/ cout.res.err # <<>> /\ cout.res.err[1] = "type mismatch"
     \/ cout.res.err = NewValidationError(crec.T[FirstMissing(crec.T, Len(RowTokens))].Name,
                                          "required field is missing")

\* the default applies to the field T[i] for the tokens: the field carries
\* one, and the token at its position is empty or there is none
DefaultApplies(T, i, tokens) ==
  /\ T[i].Options.HasDefault
  /\ \/ T[i].Options.Position > Len(tokens)
     \/ tokens[T[i].Options.Position].Value = <<>>

\* what Unmarshal leaves in the field T[i] of a fresh record: the default
\* decoded, the token decoded, or the zero value when there is no token
DecodedField(T, i, tokens) ==
  IF DefaultApplies(T, i, tokens) THEN ConvertToType(T[i].Options.Default, T[i].Type).val
  ELSE IF T[i].Options.Position > Len(tokens) THEN ZeroOf(T[i].Type)
  ELSE ConvertToType(tokens[T[i].Options.Position].Value, T[i].Type).val

\* C15: when Unmarshal succeeds, a field holds its decoded default if and
\* only if it carries a default and the token at its position is empty or
\* absent; with a non-empty token it holds the token's value.
C15_DefaultIffEmptyOrAbsent ==
  (Decoded /\ cout.res.err = <<>>) =>
     \A i \in 1..Len(crec.T) : cout.res.val[i] = DecodedField(crec.T, i, RowTokens)

\* a default was applied for an empty token, and one for an absent token
C15_Witness ==
  /\ Decoded
  /\ cout.res.err = <<>>
  /\ \E i \in 1..Len(crec.T) :
       /\ crec.T[i].Options.HasDefault
       /\ crec.T[i].Options.Position <= Len(RowTokens)
       /\ RowTokens[crec.T[i].Options.Position].Value = <<>>
       /\ cout.res.val[i] # ZeroOf(crec.T[i].Type)
  /\ \E i \in 1..Len(crec.T) :
       /\ crec.T[i].Options.HasDefault
       /\ crec.T[i].Options.Position > Len(RowTokens)

\* the highest position tagged in T
MaxPosition(T) ==
  IF T = <<>> THEN 0
  ELSE CHOOSE m \in {T[i].Options.Position : i \in 1..Len(T)} :
         \A i \in 1..Len(T) : T[i].Options.Position <= m

\* the p-th element of the row of the record r: the encoding of the field
\* at position p, or the placeholder when no field has that position
ElementAt(T, r, p) ==
  IF \E i \in 1..Len(T) : T[i].Options.Position = p
  THEN FormatValue(T[CHOOSE i \in 1..Len(T) : T[i].Options.Position = p].Type,
                   r[CHOOSE i \in 1..Len(T) : T[i].Options.Position = p])
  ELSE EmptyQuoted

\* Marshal wrote one element per position up to the highest one
PlacedByPosition ==
  (crec.kind = "record" /\ cout.stage = "marshalled") =>
     /\ cout.res.err = <<>>
     /\ cout.res.text =
          BuildRowLiteral([p \in 1..MaxPosition(crec.T) |-> ElementAt(crec.T, crec.r, p)])

\* Unmarshal of that output gave every field its value back
AssignedBack ==
  (crec.kind = "record" /\ cout.stage = "unmarshalled") =>
     (cout.res.err = <<>> /\ cout.res.val = crec.r)

\* C16: for a record type with sparse positions and no omitempty, Marshal
\* writes exactly max-position elements, the p-th being the encoding of the
\* field at position p or "" when no field has position p, so that Unmarshal
\* assigns every value back to the field it came from.
C16_SparsePositionsKept == PlacedByPosition /\ AssignedBack

\* UnmarshalStrict has run on a row that parses
DecodedStrict ==
  /\ crec.kind = "row"
  /\ cout.stage = "strict"
  /\ ParseRowLiteral(crec.text).err = <<>>

\* the row has a token at a position that no field of T is tagged with
UnmappedToken(T, tokens) ==
  \E p \in 1..Len(tokens) : \A i \in 1..Len(T) : T[i].Options.Position # p

\* C17: UnmarshalStrict returns an error whenever the row has a token at a
\* position that maps to no tagged field of the target type, and otherwise
\* returns what Unmarshal returns.
C17_StrictRejectsUnmapped ==
  DecodedStrict =>
     IF UnmappedToken(crec.T, RowTokens)
     THEN cout.res.err # <<>>
     ELSE \E orders \in Orders(crec.T) :
            cout.res = Unmarshal(crec.text, crec.T, ZeroStruct(crec.T), orders)

\* C18: for a slice of bool, integer or string elements that is not empty,
\* decoding the text FormatValue produced with ConvertToType yields a slice
\* of the same length with equal elements in the same order.
C18_SliceRoundTrip ==
  (crec.kind = "slice" /\ cout.stage = "converted" /\ crec.s # <<>>) =>
     (cout.res.err = <<>> /\ cout.res.val = crec.s)

\* Pre has run for a driver that is not postgres
PreOnOtherDriver ==
  /\ crec.kind = "generator"
  /\ cout.stage = "pre"
  /\ crec.ctx.driver # "postgres"

\* C19: whenever the driver is not "postgres", Pre returns an error naming
\* the driver and makes no emit call.
C19_OtherDriverRefused ==
  PreOnOtherDriver => (cout.res.err = ErrDriver(crec.ctx.driver) /\ cout.res.emits = <<>>)

\* C19, amended: whenever the driver is not "postgres", Pre returns an error
\* and makes no emit call; the error names the driver unless adding the
\* configured initialisms failed, in which case it is that failure.
C19_OtherDriverNoEmit ==
  PreOnOtherDriver =>
     /\ cout.res.emits = <<>>
     /\ cout.res.err = (IF cout.added # <<>> THEN cout.added ELSE ErrDriver(crec.ctx.driver))

\* Pre refused the driver mysql for a set that has files to emit headers for
C19_Witness ==
  /\ PreOnOtherDriver
  /\ cout.added = <<>>
  /\ cout.res.err = ErrDriver("mysql")
  /\ fileNames(crec.ctx.mode, crec.ctx.set) # <<>>
  /\ ~crec.ctx.notFirst

\* an identifier in double quotes if and only if its switch is set
Escaped(name, switch) == IF switch THEN "\"" \o name \o "\"" ELSE name

\* the table reference: the schema name, if there is one, quoted for
\* escSchema, then the table name quoted for escTable
TableRef(f, n) ==
  (IF f.schema = "" THEN "" ELSE Escaped(f.schema, f.escSchema) \o ".")
  \o Escaped(n, f.escTable)

\* the column names that occur in a statement
ColumnsIn(st) ==
  Range(st.cols) \cup Range(st.conflict) \cup Range(st.returning)
  \cup {st.sets[i].col : i \in 1..Len(st.sets)}
  \cup {st.where[i].col : i \in 1..Len(st.where)}

\* C20: in every generated statement the schema name is double-quoted if
\* and only if escSchema is set, the table name if and only if escTable is
\* set, and the column names if and only if escColumn is set.
C20_EscapeSwitchesIndependent ==
  (crec.kind = "generator" /\ cout.stage = "statements") =>
     \A k \in 1..Len(cout.stmts) :
        /\ cout.stmts[k].table = TableRef(NewFuncs(crec.ctx), crec.table.SQLName)
        /\ ColumnsIn(cout.stmts[k]) \subseteq
             {Escaped(crec.table.Fields[i].SQLName, NewFuncs(crec.ctx).escColumn) :
                i \in 1..Len(crec.table.Fields)}

(***************************************************************************)
(* Properties of the Process and Post phases.                              *)
(***************************************************************************)
\* the emits of emitSchema for the one schema of the set
SchemaEmitted ==
  /\ cout.stage = "process"
  /\ crec.ctx.mode = "schema"

Rank(partial) ==
  CASE partial = "enum" -> 1
    [] partial = "procs" -> 2
    [] OTHER -> 3

\* from position i on, e has the typedef of t, its indexes, its foreign keys
TableBlockAt(e, i, t) ==
  /\ i + Len(t.Indexes) + Len(t.ForeignKeys) <= Len(e)
  /\ e[i].Partial = "typedef" /\ e[i].Data = t.Name
  /\ \A j \in 1..Len(t.Indexes) :
       e[i + j].Partial = "index" /\ e[i + j].Data = t.Indexes[j]
  /\ \A j \in 1..Len(t.ForeignKeys) :
       /\ e[i + Len(t.Indexes) + j].Partial = "foreignkey"
       /\ e[i + Len(t.Indexes) + j].Data = t.ForeignKeys[j]
  /\ i + Len(t.Indexes) + Len(t.ForeignKeys) < Len(e)
       => e[i + Len(t.Indexes) + Len(t.ForeignKeys) + 1].Partial = "typedef"

\* C21: the emits of emitSchema are the enums, then the proc groups, then
\* the tables followed by the views in input order; each table's typedef is
\* followed by one emit per index and then one per foreign key of that
\* table, before the typedef of the next table.
C21_EmitOrder ==
  SchemaEmitted =>
    LET e == cout.emits
        schema == crec.ctx.set.Schemas[1]
        tables == schema.Tables \o schema.Views
        typedefs == SelectSeq(e, LAMBDA x : x.Partial = "typedef")
        starts == {i \in 1..Len(e) : e[i].Partial = "typedef"}
    IN /\ \A i \in 1..Len(e), j \in 1..Len(e) :
            i < j => Rank(e[i].Partial) <= Rank(e[j].Partial)
       /\ Len(SelectSeq(e, LAMBDA x : x.Partial = "enum")) = Len(schema.Enums)
       /\ Len(typedefs) = Len(tables)
       /\ \A k \in 1..Len(tables) :
            /\ typedefs[k].Data = tables[k].Name
            /\ \E i \in starts :
                 /\ Cardinality({h \in starts : h < i}) = k - 1
                 /\ TableBlockAt(e, i, tables[k])

\* a schema with enums, procs, two tables with indexes and foreign keys,
\* and a view has been emitted
C21_Witness ==
  /\ SchemaEmitted
  /\ Len(crec.ctx.set.Schemas[1].Enums) > 0
  /\ Len(crec.ctx.set.Schemas[1].Procs) > 0
  /\ Len(crec.ctx.set.Schemas[1].Tables) > 1
  /\ Len(crec.ctx.set.Schemas[1].Views) > 0
  /\ \E x \in 1..Len(cout.emits) : cout.emits[x].Partial = "foreignkey"

\* the position in procs of the first proc with the base name
FirstIndex(procs, name) ==
  CHOOSE i \in 1..Len(procs) :
    /\ camelExport(procs[i].Name) = name
    /\ \A h \in 1..(i - 1) : camelExport(procs[h].Name) # name

\* C22: emitSchema emits one procs template per distinct base name, in the
\* order in which the names first appear in the input; the members of a
\* group keep their input order, and a member's Overloaded flag is set if
\* and only if its group has more than one member.
C22_ProcGroups ==
  SchemaEmitted =>
    LET input == crec.ctx.set.Schemas[1].Procs
        groupNames == {camelExport(input[i].Name) : i \in 1..Len(input)}
        pe == SelectSeq(cout.emits, LAMBDA x : x.Partial = "procs")
    IN /\ Len(pe) = Cardinality(groupNames)
       /\ \A k \in 1..Len(pe) :
            LET goName == pe[k].Data[1].GoName
                group == SelectSeq(input, LAMBDA p : camelExport(p.Name) = goName)
            IN /\ goName \in groupNames
               /\ \A l \in 1..Len(pe) :
                    k < l => FirstIndex(input, goName) < FirstIndex(input, pe[l].Data[1].GoName)
               /\ Len(pe[k].Data) = Len(group)
               /\ \A m \in 1..Len(group) :
                    /\ pe[k].Data[m].SQLName = group[m].Name
                    /\ pe[k].Data[m].Signature = group[m].Definition
                    /\ pe[k].Data[m].Overloaded <=> Len(group) > 1

\* the emitted schema has a group of two procs with another proc between
\* them in the input
C22_Witness ==
  /\ SchemaEmitted
  /\ \E x \in 1..Len(cout.emits) :
       /\ cout.emits[x].Partial = "procs"
       /\ Len(cout.emits[x].Data) > 1
  /\ \E x \in 1..Len(cout.emits) :
       /\ cout.emits[x].Partial = "procs"
       /\ Len(cout.emits[x].Data) = 1
       /\ ~cout.emits[x].Data[1].Overloaded

\* C23: two runs of Post over the same map of output files make the same
\* sequence of emit calls, with the same files in the same order and the
\* same bytes, and when the formatting of a file fails the set of files
\* already emitted is the same in both runs.
C23_PostDeterministic ==
  cout.stage = "post" =>
    \A order \in RangeOrders(crec.files) :
      LET other == Post(crec.files, order)
      IN /\ other.emits = cout.res.emits
         /\ other.err # <<>> /\ cout.res.err # <<>> =>
              {other.emits[i][1] : i \in 1..Len(other.emits)}
                = {cout.res.emits[i][1] : i \in 1..Len(cout.res.emits)}

\* C30: in schema and in query mode, every destination file the Process
\* phase emits a template into is one of the file names that fileNames
\* lists in the Pre phase.
C30_DestsAmongFileNames ==
  cout.stage = "process" =>
    \A i \in 1..Len(cout.emits) :
      \E j \in 1..Len(fileNames(crec.ctx.mode, crec.ctx.set)) :
        fileNames(crec.ctx.mode, crec.ctx.set)[j] = cout.emits[i].Dest

\* the schema mode alone
SchemaDestsAmongFileNames ==
  SchemaEmitted =>
    \A i \in 1..Len(cout.emits) :
      \E j \in 1..Len(fileNames(crec.ctx.mode, crec.ctx.set)) :
        fileNames(crec.ctx.mode, crec.ctx.set)[j] = cout.emits[i].Dest

(***************************************************************************)
(* Properties of the field layout and of the parser of row literals.       *)
(***************************************************************************)
\* GetStructFields has returned a layout without error
LayoutReturned ==
  /\ cout.stage = "layout"
  /\ cout.res.err = <<>>

\* C24: in a layout GetStructFields returns without error, every position
\* is an integer >= 1, every entry's Options.Position equals its key, and no
\* two tagged fields of the type share a position.
C24_LayoutPositions ==
  LayoutReturned =>
    /\ \A pos \in DOMAIN cout.res.fields :
         /\ pos >= 1
         /\ cout.res.fields[pos].Options.Position = pos
    /\ \A i, j \in 1..Len(crec.T) :
         i # j => TagOpts(crec.T[i].Options).Position # TagOpts(crec.T[j].Options).Position

\* the same without the lower bound of the positions
LayoutKeysAndUnique ==
  LayoutReturned =>
    /\ \A pos \in DOMAIN cout.res.fields : cout.res.fields[pos].Options.Position = pos
    /\ \A i, j \in 1..Len(crec.T) :
         i # j => TagOpts(crec.T[i].Options).Position # TagOpts(crec.T[j].Options).Position

\* a shared position makes GetStructFields fail with a ValidationError
SharedPositionRefused ==
  cout.stage = "layout" =>
    ((\E i, j \in 1..Len(crec.T) :
        i # j /\ TagOpts(crec.T[i].Options).Position = TagOpts(crec.T[j].Options).Position)
     => cout.res.err # <<>> /\ cout.res.err[1] = "validation error")

\* the bytes between the parentheses of the literal parsed
Body == SubSeq(crec.text, 2, Len(crec.text) - 1)

\* the parts of s between its commas
RECURSIVE SplitCommas(_, _)
SplitCommas(s, part) ==
  IF s = <<>> THEN <<part>>
  ELSE IF Head(s) = "," THEN <<part>> \o SplitCommas(Tail(s), <<>>)
  ELSE SplitCommas(Tail(s), Append(part, Head(s)))

\* a literal of unquoted values only: no quote, and a byte other than
\* white space between any two commas
UnquotedOnly ==
  /\ cout.stage = "parsed"
  /\ \A i \in 1..Len(Body) : Body[i] # Quote
  /\ \A k \in 1..Len(SplitCommas(Body, <<>>)) : TrimSpace(SplitCommas(Body, <<>>)[k]) # <<>>

\* C25: an unquoted value extends from its first byte to the next comma or
\* the closing parenthesis, and its decoded Value is that byte sequence
\* with the surrounding white space trimmed, also when it has white space
\* between other bytes.
C25_UnquotedToSeparator ==
  UnquotedOnly =>
    /\ cout.res.err = <<>>
    /\ Len(cout.res.tokens) = Len(SplitCommas(Body, <<>>))
    /\ \A k \in 1..Len(cout.res.tokens) :
         /\ ~cout.res.tokens[k].Quoted
         /\ cout.res.tokens[k].Value = TrimSpace(SplitCommas(Body, <<>>)[k])

\* the same for the values without white space between other bytes
UnquotedWithoutInnerSpace ==
  (/\ UnquotedOnly
   /\ \A k \in 1..Len(SplitCommas(Body, <<>>)) :
        \A i \in 1..Len(TrimSpace(SplitCommas(Body, <<>>)[k])) :
          ~IsSpace(TrimSpace(SplitCommas(Body, <<>>)[k])[i]))
  =>
    /\ cout.res.err = <<>>
    /\ Len(cout.res.tokens) = Len(SplitCommas(Body, <<>>))
    /\ \A k \in 1..Len(cout.res.tokens) :
         /\ ~cout.res.tokens[k].Quoted
         /\ cout.res.tokens[k].Value = TrimSpace(SplitCommas(Body, <<>>)[k])

\* C26: parsing (a,"b)"c) fails with a ParseError whose Position is the
\* byte offset of the stray quote, the second quote of the input.
C26_StrayQuotePosition ==
  (cout.stage = "parsed" /\ crec.text = StrayQuoteText) =>
    /\ cout.res.err # <<>>
    /\ cout.res.err[1] = "parse error"
    /\ cout.res.at \in {i - 1 : i \in {j \in 1..Len(crec.text) : crec.text[j] = Quote}}

\* the literal is refused with a ParseError
StrayQuoteRefused ==
  (cout.stage = "parsed" /\ crec.text = StrayQuoteText) =>
    /\ cout.res.err # <<>>
    /\ cout.res.err[1] = "parse error"

(***************************************************************************)
(* Properties of the record's flags.                                       *)
(***************************************************************************)
\* the receiver was marked for deletion by Delete
MarkedForDeletion ==
  /\ tpl = "pgx"
  /\ rec.deleted
  /\ Emits("Insert")

\* C27: Insert on a record whose _deleted flag is set fails with
\* ErrInsertFailed{ErrMarkedForDeletion}, in every state reachable by
\* Insert, Update, Upsert, Save and Delete.
C27_InsertOnDeleted ==
  MarkedForDeletion =>
    \A fail \in BOOLEAN :
      /\ Run("Insert", fail).raw = ErrInsertFailed("ErrMarkedForDeletion")
      /\ Run("Insert", fail).calls = <<>>

\* Insert on such a record is refused, with one error or the other
InsertOnDeletedRefused ==
  MarkedForDeletion =>
    \A fail \in BOOLEAN :
      /\ Run("Insert", fail).raw \in {ErrInsertFailed("ErrMarkedForDeletion"),
                                      ErrInsertFailed("ErrAlreadyExists")}
      /\ Run("Insert", fail).calls = <<>>

\* the operation with outcome o made a database call that returned an
\* error: it returns that error wrapped and leaves the flags as they were
FailedCallKeepsFlags(o) ==
  (o.calls # <<>> /\ o.raw # NoError) =>
    /\ o.err # NoError
    /\ Unwrap(o.err) = o.raw
    /\ o.rec.exists = rec.exists
    /\ o.rec.deleted = rec.deleted

\* the flags of the outcome o differ only after a database call that
\* succeeded
FlagsChangeOnSuccess(o) ==
  (o.rec.exists # rec.exists \/ o.rec.deleted # rec.deleted) =>
    /\ o.calls # <<>>
    /\ o.raw = NoError

\* C28: when the database call of Insert, Update, Upsert or Delete returns
\* an error, the operation returns that error wrapped and leaves _exists
\* and _deleted as they were; the flags change only after the database call
\* has succeeded.
C28_FlagsAfterSuccess ==
  \A op \in {"Insert", "Update", "Upsert", "Delete"} : \A fail \in BOOLEAN :
    Emits(op) =>
      /\ fail /\ Run(op, fail).calls # <<>> => Run(op, fail).raw # NoError
      /\ FailedCallKeepsFlags(Run(op, fail))
      /\ FlagsChangeOnSuccess(Run(op, fail))

\* a stored record whose Delete would change its flags keeps them when the
\* database call fails, and the error is returned wrapped
C28_Witness ==
  /\ rec.exists
  /\ \E x \in db : Key(table, x) = RecKey(table, rec)
  /\ Run("Delete", FALSE).rec # rec
  /\ Run("Delete", TRUE).calls # <<>>
  /\ Run("Delete", TRUE).raw # NoError
  /\ Unwrap(Run("Delete", TRUE).err) = Run("Delete", TRUE).raw
  /\ Run("Delete", TRUE).rec = rec

\* C29: if Unmarshal returns an error of any kind, the target record is
\* left unchanged: no field holds a value assigned during the failed call.
C29_ErrorLeavesTarget ==
  (crec.kind = "row" /\ cout.stage = "unmarshalled" /\ cout.res.err # <<>>) =>
    cout.res.val = ZeroStruct(crec.T)

====
